---------------------------- MODULE Spec2Model ----------------------------
(***************************************************************************)
(* Model of the listoor market-making bot (0xmichalis/listoor).             *)
(*                                                                         *)
(* The bot polls an NFT marketplace for the best competing listing / offer  *)
(* of every configured target and creates its own listing / offer next to   *)
(* it.  The model holds the two pricing engines (monitorCollection and      *)
(* monitorOffer), the paginated aggregators they read the market through,   *)
(* the creation primitives (createListing, createOfferBase) and the         *)
(* cancellation of redundant offers.                                        *)
(*                                                                         *)
(* Units.  Listing prices are wei.  On the offer side the smallest unit of  *)
(* the currency is scaled: the 0.0001 ETH increment of the offer engine is  *)
(* UnitsPerIncrement smallest units instead of 10^14, and the 0.001 ETH     *)
(* increment is ten times that; the arithmetic on them is the program's.    *)
(* Times are unix seconds.                                                  *)
(***************************************************************************)
EXTENDS Integers, Sequences, FiniteSets, TLC

VARIABLES
    dryRun,            \* DRY_RUN of index.ts, fixed at start-up
    collections,       \* listing targets returned by initializeCollections
    offerCollections,  \* offer targets returned by initializeOfferCollections
    now,               \* last reading of Date.now() / 1000
    pc,                \* "idle" | "listing_requery" | "offer_requery" |
                       \* "cancel_chain" | "cancel_gather" | "done"
    engine,            \* which handler the evaluation in progress belongs to
    cur,               \* index of the target under evaluation (0: none)
    bestOrder,         \* result of the first query of the evaluation
    ourOrder,          \* result of the owner-filtered re-query
    branch,            \* decision branch taken by the evaluation
    raised,            \* message of the exception the evaluation raised ("": none)
    request,           \* what the engine handed to a creation primitive
    sdkCalls,          \* marketplace capabilities invoked by this evaluation
    cancelQueue,       \* cancelRedundantOffers: the targets still to gather, by chain
    offersToCancel,    \* the redundant offers gathered by the cancellation
    retry,             \* the call of withRetry / withRateLimitRetry in progress
    probe,             \* the last call of a query function and what it returned
    main,              \* index.ts: where main() and its three polling loops are
    market             \* the orders the marketplace holds while the loops run

vars == <<dryRun, collections, offerCollections, now, pc, engine, cur,
          bestOrder, ourOrder, branch, raised, request, sdkCalls,
          cancelQueue, offersToCancel, retry, probe, main, market>>

---------------------------------------------------------------------------
(* Bounds of the model *)

\* orders in one feed (all pages together)
MaxFeedLen == 2
\* listing prices are the multiples of ListingStep up to MaxListingSteps steps
MaxListingSteps == 3
ListingStep == 2500
\* offer prices are 0 .. MaxOfferUnits smallest units
MaxOfferUnits == 3
\* smallest units of the offer currency in 0.0001 ETH
UnitsPerIncrement == 2
\* clock readings are StartTime, StartTime + ClockStep, ...
StartTime == 1700000000
ClockStep == 400
MaxClockSteps == 1

---------------------------------------------------------------------------
(* Program constants *)

ONE_MONTH == 30 * 24 * 60 * 60
\* monitorCollection.ts:14, getBestTraitOffer.ts:98   5 * 30 * 24 * 60 * 60
DEFAULT_EXPIRATION_TIME == 5 * 30 * 24 * 60 * 60
\* monitorCollection.ts:91   12 * 60 * 60
FLOOR_EXPIRATION_TIME == 12 * 60 * 60
\* part_001:46, offers/utils.ts:88   11 * 60
MIN_EXPIRATION_TIME_SECONDS == 11 * 60
\* monitorCollection.ts:71   the 1000 wei margin of the undercut
UNDERCUT_WEI == 1000

Owner == "0xAa"

Undefined == [kind |-> "undefined"]
Thrown(msg) == [kind |-> "error", message |-> msg]
NoRequest == [kind |-> "none"]

SortingMsg == "Sorting by price is only supported for a single token"

Max(a, b) == IF a >= b THEN a ELSE b

\* String.prototype.includes, on strings and on texts written as sequences
\* of pieces
includesText(text, pattern) ==
    \E k \in 0..(Len(text) - Len(pattern)) :
        SubSeq(text, k + 1, k + Len(pattern)) = pattern

---------------------------------------------------------------------------
(* Strings and addresses *)

toLowerCase(s) ==
    CASE s = "0xAa" -> "0xaa"
      [] s = "0xBb" -> "0xbb"
      [] s = "ETH"  -> "eth"
      [] s = "WETH" -> "weth"
      [] s = "USDC" -> "usdc"
      [] OTHER -> s

toUpperCase(s) ==
    CASE s = "eth"  -> "ETH"
      [] s = "timeout" -> "TIMEOUT"
      [] s = "econnreset" -> "ECONNRESET"
      [] s = "reverted" -> "REVERTED"
      [] s = "weth" -> "WETH"
      [] s = "usdc" -> "USDC"
      [] s = "0xaa" -> "0XAA"
      [] s = "0xAa" -> "0XAA"
      [] s = "0xbb" -> "0XBB"
      [] s = "0xBb" -> "0XBB"
      [] OTHER -> s

\* ethers getAddress: the checksummed form of an address
getAddress(a) ==
    CASE toLowerCase(a) = "0xaa" -> "0xAa"
      [] toLowerCase(a) = "0xbb" -> "0xBb"
      [] OTHER -> a

\* an address compared in its exact spelling
sameSpelling(a, b) == a = b
\* getAddress(a).toLowerCase() === b.toLowerCase()
sameAddress(a, b) == toLowerCase(getAddress(a)) = toLowerCase(b)

\* a guard that only asks for a currency to be named
isNamedCurrency(currency) == currency # ""
\* paymentTokens.ts 28-31
isETHOrWETH(currency) ==
    LET normalized == toUpperCase(currency)
    IN  normalized = "ETH" \/ normalized = "WETH"

---------------------------------------------------------------------------
(* Retry wrappers of utils/ratelimit.ts.                                    *)
(* A rejection value is what fn() rejects with: isObject says whether it is *)
(* an object (an Error, a response) or a primitive (a string, undefined);   *)
(* message, code and retryAfter are its fields.  A field is missing, a      *)
(* string, a number, or a value Number() turns into NaN (a date string, an  *)
(* object).  A string is                                                    *)
(* the sequence of its words, and includes() looks for a word.              *)

Missing == [type |-> "missing"]
Str(words) == [type |-> "string", text |-> words]
Num(n) == [type |-> "number", n |-> n]
NotANumber == [type |-> "nan"]

Rejection(isObject, message, code, retryAfter) ==
    [kind |-> "error", isObject |-> isObject, message |-> message, code |-> code,
     retryAfter |-> retryAfter]
Fulfilled == [kind |-> "value"]

\* what the catch block itself throws when it calls a method a value lacks
\* or applies the in operator to a primitive
TypeErrorValue == Rejection(TRUE, Str(<<"TypeError">>), Missing, Missing)

\* ratelimit.ts 11-13, 50-52: options?.x ?? default; 0 stands for undefined
DEFAULT_MAX_RETRIES == 5
DEFAULT_BASE_DELAY_MS == 1000
DEFAULT_MAX_DELAY_MS == 30000
UndefinedOption == [defined |-> FALSE, value |-> 0]
Option(v) == [defined |-> TRUE, value |-> v]
orDefault(option, default) == IF option.defined THEN option.value ELSE default

\* ratelimit.ts 53-59
DEFAULT_RETRYABLE_ERRORS == <<"TIMEOUT", "timeout", "ECONNRESET", "ETIMEDOUT", "ENOTFOUND">>

\* ratelimit.ts 66-67: error?.message || '', error?.code || ''
orEmptyString(field) ==
    IF field.type = "missing" THEN Str(<<>>)
    ELSE IF field.type = "number" /\ field.n = 0 THEN Str(<<>>)
    ELSE IF field.type = "string" /\ field.text = <<>> THEN Str(<<>>)
    ELSE field

upperWords(words) == [k \in 1..Len(words) |-> toUpperCase(words[k])]
includes(words, word) == \E k \in 1..Len(words) : words[k] = word

\* ratelimit.ts 70-72: one retryableError against the message and the code;
\* toUpperCase exists on strings only
matchesRetryable(errorMessage, errorCode, retryableError) ==
    IF errorMessage.type # "string" THEN "TypeError"
    ELSE IF includes(upperWords(errorMessage.text), toUpperCase(retryableError))
    THEN "yes"
    ELSE IF errorCode.type # "string" THEN "TypeError"
    ELSE IF includes(upperWords(errorCode.text), toUpperCase(retryableError))
    THEN "yes"
    ELSE "no"

\* ratelimit.ts 69-73: retryableErrors.some(...), left to right
RECURSIVE someRetryable(_, _, _)
someRetryable(errorMessage, errorCode, retryableErrors) ==
    IF retryableErrors = <<>> THEN "no"
    ELSE LET m == matchesRetryable(errorMessage, errorCode, Head(retryableErrors))
         IN  IF m = "no"
             THEN someRetryable(errorMessage, errorCode, Tail(retryableErrors))
             ELSE m

\* a backoff that does not grow with the attempt
constantDelay(attempt, baseDelayMs, maxDelayMs) ==
    IF baseDelayMs <= maxDelayMs THEN baseDelayMs ELSE maxDelayMs
\* ratelimit.ts 76: Math.min(baseDelayMs * 2 ** attempt, maxDelayMs)
retryDelay(attempt, baseDelayMs, maxDelayMs) ==
    IF baseDelayMs * 2 ^ attempt <= maxDelayMs THEN baseDelayMs * 2 ^ attempt
    ELSE maxDelayMs

\* ratelimit.ts 21: Number(error.retryAfter) || 1
retryAfterOf(field) ==
    IF field.type = "number" /\ field.n # 0 THEN field.n ELSE 1

\* a server-advised wait that takes the place of the backoff
rateLimitDelayNoBackoff(attempt, retryAfter, baseDelayMs, maxDelayMs) ==
    IF baseDelayMs * retryAfter <= maxDelayMs THEN baseDelayMs * retryAfter
    ELSE maxDelayMs
\* ratelimit.ts 22: Math.min(baseDelayMs * 2 ** attempt * retryAfter, maxDelayMs)
rateLimitDelay(attempt, retryAfter, baseDelayMs, maxDelayMs) ==
    IF baseDelayMs * 2 ^ attempt * retryAfter <= maxDelayMs
    THEN baseDelayMs * 2 ^ attempt * retryAfter
    ELSE maxDelayMs

\* The catch block of one wrapper, for the rejection the attempt-th
\* re-invocation ended with: retry after a delay, or reject with an error.
RetryAfterDelay(delay) == [then |-> "retry", delay |-> delay, error |-> Fulfilled]
RejectWith(error) == [then |-> "reject", delay |-> 0, error |-> error]

\* ratelimit.ts 65-85
withRetryCatch(error, attempt, maxRetries, baseDelayMs, maxDelayMs, retryableErrors) ==
    LET errorMessage == IF error.isObject THEN orEmptyString(error.message) ELSE Str(<<>>)
        errorCode == IF error.isObject THEN orEmptyString(error.code) ELSE Str(<<>>)
        matched == someRetryable(errorMessage, errorCode, retryableErrors)
    IN  IF matched = "TypeError" THEN RejectWith(TypeErrorValue)
        ELSE IF matched = "yes" /\ attempt < maxRetries
        THEN RetryAfterDelay(retryDelay(attempt, baseDelayMs, maxDelayMs))
        ELSE RejectWith(error)

\* ratelimit.ts 19-31
withRateLimitRetryCatch(error, attempt, maxRetries, baseDelayMs, maxDelayMs) ==
    IF ~error.isObject THEN RejectWith(TypeErrorValue)
    ELSE IF error.retryAfter.type # "missing" /\ attempt < maxRetries
    THEN RetryAfterDelay(rateLimitDelay(attempt, retryAfterOf(error.retryAfter),
                                        baseDelayMs, maxDelayMs))
    ELSE RejectWith(error)

\* a counter that lives on from the previous call
attemptKept(previous) == previous
\* ratelimit.ts 15, 61: let attempt = 0
attemptAtStart(previous) == 0

---------------------------------------------------------------------------
(* Orders as the marketplace API returns them.                              *)
(* value is price.value (price.current.value), 0 standing for '0' or a      *)
(* missing value; offer and consideration are the Seaport items of          *)
(* protocol_data.parameters; order_hash "" stands for a missing hash.       *)

Item(type, token, id, amount) ==
    [itemType |-> type, token |-> token, identifierOrCriteria |-> id,
     endAmount |-> amount]

NoCriteria == [defined |-> FALSE, trait |-> <<>>]
CollectionCriteria == [defined |-> TRUE, trait |-> <<>>]
TraitCriteria(type, value) == [defined |-> TRUE, trait |-> <<type, value>>]

Order(hash, offerer, value, currency, offer, consideration, criteria, endTime) ==
    [kind |-> "order", order_hash |-> hash, offerer |-> offerer, value |-> value,
     currency |-> currency, offer |-> offer, consideration |-> consideration,
     criteria |-> criteria, endTime |-> endTime]

RECURSIVE SumEndAmounts(_)
SumEndAmounts(items) ==
    IF items = <<>> THEN 0
    ELSE Head(items).endAmount + SumEndAmounts(Tail(items))

\* listings/utils.ts and offers/utils.ts: the reduce over parameters.offer
sumOfferEndAmounts(order) == SumEndAmounts(order.offer)

\* the price of the whole order, whatever the number of items it holds
listingTotalPrice(l) == l.value
\* BigInt(price.value) / sumOfferEndAmounts(order): bigint (floor) division
listingPricePerItem(l) == l.value \div sumOfferEndAmounts(l)

---------------------------------------------------------------------------
(* Stable sort, as Array.prototype.sort with a three-way comparator on an   *)
(* integer key: SortedIndices(keys) is the order in which an ascending      *)
(* stable sort leaves the elements whose keys are given.                    *)

RECURSIVE InsertStable(_, _, _)
InsertStable(i, sorted, keys) ==
    IF sorted = <<>> THEN <<i>>
    ELSE IF keys[i] < keys[Head(sorted)] THEN <<i>> \o sorted
    ELSE <<Head(sorted)>> \o InsertStable(i, Tail(sorted), keys)

RECURSIVE SortedPrefix(_, _)
SortedPrefix(n, keys) ==
    IF n = 0 THEN <<>> ELSE InsertStable(n, SortedPrefix(n - 1, keys), keys)

SortedIndices(keys) == SortedPrefix(Len(keys), keys)

\* s.sort((a, b) => key(a) < key(b) ? -1 : key(a) > key(b) ? 1 : 0)
SortAscending(s, keys) ==
    LET idx == SortedIndices(keys) IN [k \in 1..Len(s) |-> s[idx[k]]]

\* s.sort((a, b) => key(a) > key(b) ? -1 : key(a) < key(b) ? 1 : 0)
SortDescending(s, keys) ==
    SortAscending(s, [k \in 1..Len(keys) |-> 0 - keys[k]])

FirstOrUndefined(s) == IF Len(s) = 0 THEN Undefined ELSE s[1]

---------------------------------------------------------------------------
(* A feed is the sequence of pages the API serves for one collection; the   *)
(* page at index i carries a next cursor iff i < Len(feed).  A page whose   *)
(* error is not "" is a request that failed after its rate-limit retries.   *)

Page(orders) == [error |-> "", orders |-> orders]
ErrorPage(msg) == [error |-> msg, orders |-> <<>>]

NoToken == ""
NoOfferer == ""

\* getBestListing.ts 28-38: the page filter
listingMatches(l, tokenId, offerer) ==
    LET matchesToken ==
            IF tokenId # NoToken
            THEN \E k \in 1..Len(l.offer) : l.offer[k].identifierOrCriteria = tokenId
            ELSE TRUE
        matchesOfferer ==
            IF offerer # NoOfferer THEN sameAddress(l.offerer, offerer) ELSE TRUE
    IN  l.value # 0 /\ matchesToken /\ matchesOfferer

cheaperListing(a, b) == listingPricePerItem(a) < listingPricePerItem(b)

\* getBestListing.ts 16-68, the recursion on the next cursor
RECURSIVE getBestListing(_, _, _)
getBestListing(pages, tokenId, offerer) ==
    IF Head(pages).error # "" THEN Thrown(Head(pages).error)
    ELSE
    LET LM(l) == listingMatches(l, tokenId, offerer)
        matching == SelectSeq(Head(pages).orders, LM)
        filteredListings ==
            SortAscending(matching,
                          [k \in 1..Len(matching) |-> listingPricePerItem(matching[k])])
        listing == FirstOrUndefined(filteredListings)
    IN  IF Len(pages) > 1
        THEN LET nextListing == getBestListing(Tail(pages), tokenId, offerer)
             IN  IF nextListing.kind = "error" THEN nextListing
                 ELSE IF listing = Undefined
                         \/ (nextListing # Undefined /\ cheaperListing(nextListing, listing))
                 THEN nextListing
                 ELSE listing
        ELSE listing

---------------------------------------------------------------------------
(* The single-token query: seaport.api.getOrders sorted by price on the     *)
(* server, and the conversion of its first order.                           *)

ZERO_ADDRESS == "0x0000000000000000000000000000000000000000"
\* paymentTokens.ts 9
WETH_ADDRESS == "0xC02aaA39b223FE8D0A0e5C4F27eAD9083C756Cc2"
USDC_ADDRESS == "0xA0b86991c6218b36c1d19D4a2e9Eb0cE3606eB48"

\* logger.ts 119-128
getCurrencySymbol(address) ==
    IF toLowerCase(address) = ZERO_ADDRESS THEN "ETH" ELSE "UNKNOWN"

\* logger.ts 66-111: the symbol of the first currency item of the consideration
getOrderCurrency(orderV2) ==
    LET IsCurrency(item) == item.itemType = 0 \/ item.itemType = 1
        currencyItems == SelectSeq(orderV2.consideration, IsCurrency)
    IN  IF Len(currencyItems) = 0 THEN Thrown("No currency items found in order")
        ELSE IF currencyItems[1].itemType = 0 THEN [kind |-> "symbol", symbol |-> "ETH"]
        ELSE [kind |-> "symbol", symbol |-> getCurrencySymbol(currencyItems[1].token)]

\* logger.ts 43-59
orderV2ToListing(orderV2) ==
    LET currency == getOrderCurrency(orderV2)
    IN  IF currency.kind = "error" THEN currency
        ELSE [orderV2 EXCEPT !.currency = currency.symbol]

RECURSIVE Flatten(_)
Flatten(pages) ==
    IF pages = <<>> THEN <<>> ELSE Head(pages).orders \o Flatten(Tail(pages))

\* The marketplace's answer to getOrders({side: LISTING, tokenIds: [tokenId],
\* orderBy: 'eth_price', orderDirection: 'asc'}): the orders of that token,
\* cheapest first.
listingOrdersOfToken(pages, tokenId) ==
    LET OfToken(l) ==
            \E k \in 1..Len(l.offer) : l.offer[k].identifierOrCriteria = tokenId
        orders == SelectSeq(Flatten(pages), OfToken)
    IN  SortAscending(orders, [k \in 1..Len(orders) |-> orders[k].value])

\* getSingleBestListing.ts 36-62
getBestListingFromOrders(api, tokenId) ==
    IF api.ordersError # "" THEN Thrown(api.ordersError)
    ELSE LET orders == listingOrdersOfToken(api.pages, tokenId)
         IN  IF Len(orders) = 0 THEN Undefined ELSE orderV2ToListing(orders[1])

\* a single-token query that is never followed by the pagination
getSingleBestListingNoFallback(api, tokenId) ==
    [queries |-> <<"getOrders">>, result |-> getBestListingFromOrders(api, tokenId)]

\* getSingleBestListing.ts 14-32, with the queries it sends to the
\* marketplace; api.ordersErrorIsError: what getOrders rejects with is an
\* instance of Error
getSingleBestListingTraced(api, tokenId) ==
    LET r == getBestListingFromOrders(api, tokenId)
    IN  IF r.kind = "error" /\ api.ordersErrorIsError /\ includesText(r.message, SortingMsg)
        THEN [queries |-> <<"getOrders", "getAllListings">>,
              result |-> getBestListing(api.pages, tokenId, NoOfferer)]
        ELSE [queries |-> <<"getOrders">>, result |-> r]

\* getSingleBestListing.ts 14-32
getSingleBestListing(api, tokenId) == getSingleBestListingTraced(api, tokenId).result

---------------------------------------------------------------------------
(* Listing engine *)

\* the rejection of a request the marketplace rate-limits
RateLimited == Rejection(TRUE, Str(<<"failed">>), Missing, Num(60))

\* seconds withRateLimitRetry (default options) waits after a first
\* rate-limited send, ratelimit.ts 20-27
rateLimitWait ==
    withRateLimitRetryCatch(RateLimited, 0, DEFAULT_MAX_RETRIES, DEFAULT_BASE_DELAY_MS,
                            DEFAULT_MAX_DELAY_MS).delay \div 1000

\* the sends of one request behind withRateLimitRetry: the request goes out
\* when the primitive has read the clock and, if the marketplace rate-limits
\* it, once more after the wait
sends(call, currentTime, outcome) ==
    IF outcome = "rate limited, then ok"
    THEN <<[call EXCEPT !.sentAt = currentTime],
           [call EXCEPT !.sentAt = currentTime + rateLimitWait]>>
    ELSE <<[call EXCEPT !.sentAt = currentTime]>>

\* what the marketplace does with a createListing request
ListingOutcomes == {"ok", "rejected", "rate limited, then ok"}

\* a creation that goes to the marketplace whatever the dry-run flag says
createListingAlways(tokenId, price, expirationTime, owner, dry, currentTime, outcome) ==
    [calls |-> <<[cap |-> "createListing", tokenId |-> tokenId,
                  accountAddress |-> owner, amount |-> price,
                  expirationTime |-> expirationTime, sentAt |-> currentTime]>>,
     error |-> ""]
\* part_001 59-95.  amount is formatEther(price): the same amount, written as
\* a decimal string of ether.  outcome: what seaport.createListing (behind
\* withRateLimitRetry) ends with.
createListing(tokenId, price, expirationTime, owner, dry, currentTime, outcome) ==
    LET minExpirationTime == currentTime + MIN_EXPIRATION_TIME_SECONDS
        adjustedExpirationTime == Max(expirationTime, minExpirationTime)
    IN  IF dry THEN [calls |-> <<>>, error |-> ""]
        ELSE [calls |-> sends([cap |-> "createListing", tokenId |-> tokenId,
                               accountAddress |-> owner, amount |-> price,
                               expirationTime |-> adjustedExpirationTime,
                               sentAt |-> currentTime],
                              currentTime, outcome),
              error |-> IF outcome = "rejected" THEN "createListing rejected" ELSE ""]

ListingDecision(b, price, expirationTime) ==
    [branch |-> b, price |-> price, expirationTime |-> expirationTime]

\* an undercut that only rounds the competing price down to 1000 wei
undercutWithoutMargin(price) == (price \div 1000) * 1000
\* monitorCollection.ts 71: the competing price less the 1000 wei margin
undercutPrice(price) == (price \div 1000) * 1000 - UNDERCUT_WEI

\* monitorCollection.ts 35-73: from the best listing to the decision, or to
\* the re-query of the owner's own listing
monitorCollectionDecide(c, bestListing, owner, currentTime) ==
    IF bestListing = Undefined
    THEN ListingDecision("default", c.defaultPrice, currentTime + DEFAULT_EXPIRATION_TIME)
    ELSE IF ~isETHOrWETH(bestListing.currency)
    THEN ListingDecision("skip_currency", 0, 0)
    ELSE LET price == listingPricePerItem(bestListing)
         IN  IF sameAddress(bestListing.offerer, owner)
             THEN ListingDecision("skip_owner", price, 0)
             ELSE IF price >= c.minPrice
             THEN ListingDecision("undercut",
                                  IF undercutPrice(price) < c.defaultPrice THEN undercutPrice(price)
                                  ELSE c.defaultPrice,
                                  bestListing.endTime)
             ELSE ListingDecision("requery", price, 0)

\* a floor branch that takes any listing of the owner for a reason to skip
monitorCollectionFloorAnyListing(c, ourListing, currentTime) ==
    IF ourListing # Undefined
    THEN ListingDecision("skip_floor", listingPricePerItem(ourListing), 0)
    ELSE ListingDecision("floor", c.minPrice, currentTime + FLOOR_EXPIRATION_TIME)
\* monitorCollection.ts 74-92: the floor branch, after the re-query
monitorCollectionFloor(c, ourListing, currentTime) ==
    LET listedPrice ==
            IF ourListing # Undefined THEN listingPricePerItem(ourListing) ELSE 0
    IN  IF ourListing # Undefined
           /\ isETHOrWETH(ourListing.currency)
           /\ listedPrice <= c.minPrice
        THEN ListingDecision("skip_floor", listedPrice, 0)
        ELSE ListingDecision("floor", c.minPrice, currentTime + FLOOR_EXPIRATION_TIME)

ListingSubmits(b) == b \in {"default", "undercut", "floor"}

---------------------------------------------------------------------------
(* Price and quantity of an offer *)

\* offers/utils.ts 19-47
getOfferQuantity(offer) ==
    LET consideration == offer.consideration
        IsCriteria(item) == item.itemType = 4
        IsNFT(item) == item.itemType = 2 \/ item.itemType = 3
        criteriaItems == SelectSeq(consideration, IsCriteria)
        quantity == SumEndAmounts(SelectSeq(consideration, IsNFT))
    IN  IF Len(criteriaItems) > 0 THEN criteriaItems[1].endAmount
        ELSE IF quantity = 0 THEN 1 ELSE quantity

\* offers/utils.ts 54-62
getOfferType(offer) ==
    IF offer.criteria.defined
    THEN IF offer.criteria.trait # <<>> THEN "trait" ELSE "collection"
    ELSE "single"

\* BigInt(o.price.value) / BigInt(getOfferQuantity(o))
pricePerQuantity(o) == o.value \div getOfferQuantity(o)

\* BigInt(o.price.value) / sumOfferEndAmounts(o)
pricePerEndAmounts(o) == o.value \div sumOfferEndAmounts(o)

\* offers/utils.ts 71-78
getOfferPricePerItem(offer) ==
    IF getOfferType(offer) = "single" THEN pricePerEndAmounts(offer)
    ELSE pricePerQuantity(offer)

---------------------------------------------------------------------------
(* Offer aggregators over seaport.api.getAllOffers *)

UndefinedReadMsg == "Cannot read properties of undefined (reading 'protocol_data')"

offererMatches(o, offerer) ==
    IF offerer # NoOfferer THEN sameAddress(o.offerer, offerer) ELSE TRUE

\* createTraitOffer.ts 58-106 (getBestOffer.ts)
RECURSIVE getBestOffer(_, _, _)
getBestOffer(pages, tokenId, offerer) ==
    IF Head(pages).error # "" THEN Thrown(Head(pages).error)
    ELSE
    LET Matches(o) ==
            LET matchesToken ==
                    IF tokenId # NoToken
                    THEN \E k \in 1..Len(o.consideration) :
                            o.consideration[k].identifierOrCriteria = tokenId
                    ELSE TRUE
            IN  o.value # 0 /\ matchesToken /\ offererMatches(o, offerer)
        matching == SelectSeq(Head(pages).orders, Matches)
        filteredOffers ==
            SortDescending(matching,
                           [k \in 1..Len(matching) |-> pricePerEndAmounts(matching[k])])
        offer == FirstOrUndefined(filteredOffers)
    IN  IF Len(pages) > 1
        THEN LET nextOffer == getBestOffer(Tail(pages), tokenId, offerer)
             IN  IF nextOffer.kind = "error" THEN nextOffer
                 ELSE IF offer = Undefined
                         \/ (nextOffer # Undefined
                             /\ pricePerEndAmounts(nextOffer) > pricePerEndAmounts(offer))
                 THEN nextOffer
                 ELSE offer
        ELSE offer

\* paymentTokens.ts 192-207
getBestOfferFromList(offers) ==
    IF Len(offers) = 0 THEN Undefined
    ELSE SortDescending(offers,
                        [k \in 1..Len(offers) |-> pricePerQuantity(offers[k])])[1]

NoMaxPrice == 0

\* paymentTokens.ts 130-189 (getBestCollectionOffer.ts); maxPrice 0 is no maxPrice
RECURSIVE getBestCollectionOffer(_, _, _)
getBestCollectionOffer(pages, offerer, maxPrice) ==
    IF Head(pages).error # "" THEN Thrown(Head(pages).error)
    ELSE
    LET Valid(o) ==
            /\ o.value # 0
            /\ offererMatches(o, offerer)
            /\ ~(maxPrice # NoMaxPrice /\ pricePerQuantity(o) >= maxPrice)
        validOffers == SelectSeq(Head(pages).orders, Valid)
        bestOffer == getBestOfferFromList(validOffers)
    IN  IF Len(pages) > 1
        THEN LET nextOffer == getBestCollectionOffer(Tail(pages), offerer, maxPrice)
             IN  IF nextOffer.kind = "error" THEN nextOffer
                 ELSE IF nextOffer # Undefined /\ bestOffer # Undefined
                 THEN IF pricePerQuantity(nextOffer) > pricePerQuantity(bestOffer)
                      THEN nextOffer ELSE bestOffer
                 ELSE IF nextOffer # Undefined THEN nextOffer ELSE bestOffer
        ELSE bestOffer

\* getBestTraitOffer.ts 17-77
RECURSIVE getBestTraitOffer(_, _, _, _)
getBestTraitOffer(pages, traitType, traitValue, offerer) ==
    IF Head(pages).error # "" THEN Thrown(Head(pages).error)
    ELSE
    LET Matches(o) ==
            LET matchesTrait ==
                    /\ o.criteria.defined
                    /\ o.criteria.trait # <<>>
                    /\ o.criteria.trait[1] = traitType
                    /\ o.criteria.trait[2] = traitValue
            IN  o.value # 0 /\ matchesTrait /\ offererMatches(o, offerer)
        matching == SelectSeq(Head(pages).orders, Matches)
        filteredOffers ==
            SortDescending(matching,
                           [k \in 1..Len(matching) |-> pricePerQuantity(matching[k])])
        offer == FirstOrUndefined(filteredOffers)
    IN  IF Len(pages) > 1
        THEN LET nextOffer ==
                     getBestTraitOffer(Tail(pages), traitType, traitValue, offerer)
             IN  IF nextOffer.kind = "error" THEN nextOffer
                 ELSE IF nextOffer # Undefined
                 THEN \* getOfferQuantity(offer) is read before offer is tested
                      IF offer = Undefined THEN Thrown(UndefinedReadMsg)
                      ELSE IF pricePerQuantity(nextOffer) > pricePerQuantity(offer)
                      THEN nextOffer ELSE offer
                 ELSE offer
        ELSE offer

\* part_006 15-62: the getBestCollectionOffer.ts that keeps the offers with a
\* criteria only
RECURSIVE getBestCollectionOfferPart006(_, _)
getBestCollectionOfferPart006(pages, offerer) ==
    IF Head(pages).error # "" THEN Thrown(Head(pages).error)
    ELSE
    LET Matches(o) == o.value # 0 /\ o.criteria.defined /\ offererMatches(o, offerer)
        matching == SelectSeq(Head(pages).orders, Matches)
        filteredOffers ==
            SortDescending(matching,
                           [k \in 1..Len(matching) |-> pricePerQuantity(matching[k])])
        offer == FirstOrUndefined(filteredOffers)
    IN  IF Len(pages) > 1
        THEN LET nextOffer == getBestCollectionOfferPart006(Tail(pages), offerer)
             IN  IF nextOffer.kind = "error" THEN nextOffer
                 ELSE IF nextOffer # Undefined
                 THEN \* getOfferQuantity(offer) is read before offer is tested
                      IF offer = Undefined THEN Thrown(UndefinedReadMsg)
                      ELSE IF pricePerQuantity(nextOffer) > pricePerQuantity(offer)
                      THEN nextOffer ELSE offer
                 ELSE offer
        ELSE offer

\* orderV2ToOffer.ts: the order in the shape of an Offer
orderV2ToOffer(orderV2) == [orderV2 EXCEPT !.criteria = NoCriteria]

\* The marketplace's answer to getOrders({side: OFFER, tokenIds: [tokenId],
\* orderBy: 'eth_price', orderDirection: 'desc'}): the offers made for that
\* token, highest first.
offerOrdersOfToken(pages, tokenId) ==
    LET OfToken(o) ==
            \E k \in 1..Len(o.consideration) :
                /\ o.consideration[k].itemType \in {2, 3}
                /\ o.consideration[k].identifierOrCriteria = tokenId
        orders == SelectSeq(Flatten(pages), OfToken)
    IN  SortDescending(orders, [k \in 1..Len(orders) |-> orders[k].value])

\* getSingleBestOffer.ts 36-62
getBestOfferFromOrders(api, tokenId) ==
    IF api.ordersError # "" THEN Thrown(api.ordersError)
    ELSE LET orders == offerOrdersOfToken(api.pages, tokenId)
         IN  IF Len(orders) = 0 THEN Undefined ELSE orderV2ToOffer(orders[1])

\* a single-token query that is never followed by the pagination
getSingleBestOfferNoFallback(api, tokenId) ==
    [queries |-> <<"getOrders">>, result |-> getBestOfferFromOrders(api, tokenId)]

\* getSingleBestOffer.ts 15-33, with the queries it sends to the marketplace
getSingleBestOfferTraced(api, tokenId) ==
    LET r == getBestOfferFromOrders(api, tokenId)
    IN  IF r.kind = "error" /\ api.ordersErrorIsError /\ includesText(r.message, SortingMsg)
        THEN [queries |-> <<"getOrders", "getAllOffers">>,
              result |-> getBestOffer(api.pages, tokenId, NoOfferer)]
        ELSE [queries |-> <<"getOrders">>, result |-> r]

\* getSingleBestOffer.ts 15-33
getSingleBestOffer(api, tokenId) == getSingleBestOfferTraced(api, tokenId).result

---------------------------------------------------------------------------
(* Offer engine *)

\* getBestTraitOffer.ts 99: parseEther('0.0001')
OPENSEA_PRICE_INCREMENT_4_DECIMALS == UnitsPerIncrement
\* offers/utils.ts 89: parseEther('0.001')
OPENSEA_PRICE_INCREMENT_3_DECIMALS == 10 * UnitsPerIncrement

\* a price passed on as it is
notRounded(price) == price
\* getBestTraitOffer.ts 108-111
roundToFourDecimals(price) ==
    (price \div OPENSEA_PRICE_INCREMENT_4_DECIMALS) * OPENSEA_PRICE_INCREMENT_4_DECIMALS

\* a price cut down to its 0.001 increment
roundDownToThreeDecimals(price) ==
    (price \div OPENSEA_PRICE_INCREMENT_3_DECIMALS) * OPENSEA_PRICE_INCREMENT_3_DECIMALS

\* offers/utils.ts 101-106
roundUpToThreeDecimals(price) ==
    IF price <= 0 THEN price
    ELSE LET remainder == price % OPENSEA_PRICE_INCREMENT_3_DECIMALS
         IN  IF remainder = 0 THEN price
             ELSE price + (OPENSEA_PRICE_INCREMENT_3_DECIMALS - remainder)

\* collections/types.ts 38-46
inferOfferType(c) ==
    IF c.tokenId # NoToken THEN "single"
    ELSE IF c.trait # <<>> THEN "trait"
    ELSE "collection"

SHAPE_WETH == "0x4200000000000000000000000000000000000006"

\* paymentTokens.ts 11-19
WETH_PAYMENT_TOKENS(chainId) ==
    IF chainId \in {1, 10, 137, 8453, 42161, 7777777} THEN WETH_ADDRESS
    ELSE IF chainId = 360 THEN SHAPE_WETH
    ELSE ""

\* the chain-1 address on every chain
mainnetPaymentToken(currency, chainId) == WETH_ADDRESS

\* paymentTokens.ts 39-55
getPaymentTokenAddress(currency, chainId) ==
    LET normalized == toUpperCase(currency)
    IN  IF normalized = "ETH" THEN ZERO_ADDRESS
        ELSE IF normalized = "WETH"
        THEN IF WETH_PAYMENT_TOKENS(chainId) # "" THEN WETH_PAYMENT_TOKENS(chainId)
             ELSE WETH_ADDRESS
        ELSE "unsupported"

\* deriveExpirationTime.ts: the expiration of the competing offer when there
\* is one (previous is <<endTime>>), the default horizon from now when there
\* is none (previous is <<>>)
deriveExpirationTime(previous, defaultExpirationTime, currentTime) ==
    IF previous = <<>> THEN currentTime + defaultExpirationTime ELSE previous[1]

\* the per-item price monitorOffer reads from an offer, getBestTraitOffer.ts
\* 188-195 and 238-246
offerPriceForTarget(c, offer) ==
    IF inferOfferType(c) \in {"collection", "trait"}
    THEN pricePerQuantity(offer)
    ELSE pricePerEndAmounts(offer)

OfferDecision(b, price, expirationTime) ==
    [branch |-> b, price |-> price, expirationTime |-> expirationTime]

\* getBestTraitOffer.ts 160-221: from the best offer to the decision, or to
\* the re-query of the owner's own offer
monitorOfferDecide(c, bestOffer, owner, currentTime) ==
    IF bestOffer = Undefined
    THEN OfferDecision("default", c.defaultPrice,
                       deriveExpirationTime(<<>>, DEFAULT_EXPIRATION_TIME, currentTime))
    ELSE LET expirationTime ==
                 deriveExpirationTime(<<bestOffer.endTime>>, DEFAULT_EXPIRATION_TIME,
                                      currentTime)
         IN  IF ~isETHOrWETH(bestOffer.currency)
             THEN OfferDecision("skip_currency", 0, expirationTime)
             ELSE LET price == offerPriceForTarget(c, bestOffer)
                  IN  IF sameAddress(bestOffer.offerer, owner)
                      THEN OfferDecision("skip_owner", price, expirationTime)
                      ELSE IF price <= c.maxPrice
                      THEN LET newPrice == price + OPENSEA_PRICE_INCREMENT_4_DECIMALS
                           IN  OfferDecision("outbid",
                                             IF newPrice > c.defaultPrice THEN newPrice
                                             ELSE c.defaultPrice,
                                             expirationTime)
                      ELSE OfferDecision("requery", price, expirationTime)

\* getBestTraitOffer.ts 222-264: the over-max branch, after the re-query
monitorOfferOverMax(c, ourOffer, expirationTime) ==
    LET paymentCurrency == "WETH"
        offeredPrice ==
            IF ourOffer # Undefined THEN offerPriceForTarget(c, ourOffer) ELSE 0
        ourOfferCurrency ==
            IF ourOffer # Undefined THEN ourOffer.currency ELSE paymentCurrency
    IN  IF ourOffer # Undefined
           /\ isETHOrWETH(ourOfferCurrency)
           /\ isETHOrWETH(paymentCurrency)
           /\ offeredPrice >= c.maxPrice
        THEN OfferDecision("skip_max", offeredPrice, expirationTime)
        ELSE OfferDecision("max", c.maxPrice, expirationTime)

OfferSubmits(b) == b \in {"default", "outbid", "max"}

\* a final price that forgets the quantity
offerFinalPriceOfOne(c, price) == roundToFourDecimals(price)
\* getBestTraitOffer.ts 271-285
offerFinalPrice(c, price) ==
    LET quantity == IF c.quantity = 0 THEN 1 ELSE c.quantity
    IN  IF inferOfferType(c) \in {"collection", "trait"}
        THEN roundToFourDecimals(price) * quantity
        ELSE roundToFourDecimals(price)

\* what the marketplace does with a creation call: fulfils it, rejects it,
\* fulfils it with no order, or rejects a collection offer for its decimals
\* and then fulfils or rejects the retry
SdkOutcomes(type) ==
    IF type = "single" THEN {"ok", "rejected", "null", "rate limited, then ok"}
    ELSE {"ok", "rejected", "null", "rate limited, then ok",
          "3 decimals allowed, then ok", "3 decimals allowed, then rejected"}

\* offers/utils.ts 179-273, with withThreeDecimalsRetry of 126-147.  params is
\* the OfferCreateParams; amount is formatEther(price), the same amount.
createOfferBase(params, price, expirationTime, owner, paymentTokenAddress, dry, currentTime, outcome) ==
    LET minExpirationTime == currentTime + MIN_EXPIRATION_TIME_SECONDS
        adjustedExpirationTime == Max(expirationTime, minExpirationTime)
        SingleCall ==
            [cap |-> "createOffer", tokenId |-> params.tokenId,
             accountAddress |-> owner, amount |-> price,
             expirationTime |-> adjustedExpirationTime,
             paymentTokenAddress |-> paymentTokenAddress, sentAt |-> currentTime]
        CollectionCall(offerPrice) ==
            [cap |-> "createCollectionOffer", trait |-> params.trait,
             accountAddress |-> owner, amount |-> offerPrice,
             quantity |-> IF params.quantity = 0 THEN 1 ELSE params.quantity,
             expirationTime |-> adjustedExpirationTime,
             paymentTokenAddress |-> paymentTokenAddress, sentAt |-> currentTime]
        failure ==
            IF params.type = "single" THEN "Failed to create offer"
            ELSE IF params.type = "collection" THEN "Failed to create collection offer"
            ELSE "Failed to create trait offer"
    IN  IF dry THEN [calls |-> <<>>, error |-> ""]
        ELSE IF params.type = "single"
        THEN [calls |-> sends(SingleCall, currentTime, outcome),
              error |-> CASE outcome \in {"ok", "rate limited, then ok"} -> ""
                          [] outcome = "null" -> failure
                          [] OTHER -> "createOffer rejected"]
        ELSE CASE outcome \in {"ok", "rate limited, then ok"} ->
                    [calls |-> sends(CollectionCall(price), currentTime, outcome),
                     error |-> ""]
               [] outcome = "null" ->
                    [calls |-> <<CollectionCall(price)>>, error |-> failure]
               [] outcome = "3 decimals allowed, then ok" ->
                    [calls |-> <<CollectionCall(price),
                                 CollectionCall(roundUpToThreeDecimals(price))>>,
                     error |-> ""]
               [] outcome = "3 decimals allowed, then rejected" ->
                    [calls |-> <<CollectionCall(price),
                                 CollectionCall(roundUpToThreeDecimals(price))>>,
                     error |-> "createCollectionOffer rejected"]
               [] OTHER ->
                    [calls |-> <<CollectionCall(price)>>,
                     error |-> "createCollectionOffer rejected"]

\* createOffer.ts 18-37
createOffer(tokenId, price, expirationTime, owner, paymentTokenAddress, dry, currentTime, outcome) ==
    createOfferBase([type |-> "single", tokenId |-> tokenId, trait |-> <<>>,
                     quantity |-> 0],
                    price, expirationTime, owner, paymentTokenAddress, dry,
                    currentTime, outcome)

\* paymentTokens.ts 92-111 (createCollectionOffer.ts)
createCollectionOffer(price, expirationTime, owner, quantity, paymentTokenAddress, dry, currentTime, outcome) ==
    createOfferBase([type |-> "collection", tokenId |-> NoToken, trait |-> <<>>,
                     quantity |-> quantity],
                    price, expirationTime, owner, paymentTokenAddress, dry,
                    currentTime, outcome)

\* createTraitOffer.ts 20-41
createTraitOffer(traitType, traitValue, price, expirationTime, owner, quantity, paymentTokenAddress, dry, currentTime, outcome) ==
    createOfferBase([type |-> "trait", tokenId |-> NoToken,
                     trait |-> <<traitType, traitValue>>, quantity |-> quantity],
                    price, expirationTime, owner, paymentTokenAddress, dry,
                    currentTime, outcome)

---------------------------------------------------------------------------
(* Cancellation of redundant offers *)

\* getAllOffers.ts 16-59
RECURSIVE getAllOffers(_, _, _)
getAllOffers(pages, tokenId, offerer) ==
    IF Head(pages).error # "" THEN Thrown(Head(pages).error)
    ELSE
    LET Matches(o) ==
            LET matchesToken ==
                    IF tokenId # NoToken
                    THEN \E k \in 1..Len(o.consideration) :
                            o.consideration[k].identifierOrCriteria = tokenId
                    ELSE TRUE
            IN  o.value # 0 /\ matchesToken /\ offererMatches(o, offerer)
        filteredOffers == SelectSeq(Head(pages).orders, Matches)
    IN  IF Len(pages) > 1
        THEN LET rest == getAllOffers(Tail(pages), tokenId, offerer)
             IN  IF rest.kind = "error" THEN rest
                 ELSE [kind |-> "offers", offers |-> filteredOffers \o rest.offers]
        ELSE [kind |-> "offers", offers |-> filteredOffers]

\* part_005 15-53 (getAllCollectionOffers.ts)
RECURSIVE getAllCollectionOffers(_, _)
getAllCollectionOffers(pages, offerer) ==
    IF Head(pages).error # "" THEN Thrown(Head(pages).error)
    ELSE
    LET Matches(o) ==
            o.value # 0 /\ o.criteria.defined /\ offererMatches(o, offerer)
        filteredOffers == SelectSeq(Head(pages).orders, Matches)
    IN  IF Len(pages) > 1
        THEN LET rest == getAllCollectionOffers(Tail(pages), offerer)
             IN  IF rest.kind = "error" THEN rest
                 ELSE [kind |-> "offers", offers |-> filteredOffers \o rest.offers]
        ELSE [kind |-> "offers", offers |-> filteredOffers]

\* part_007 17-63 (getAllTraitOffers.ts)
RECURSIVE getAllTraitOffers(_, _, _, _)
getAllTraitOffers(pages, traitType, traitValue, offerer) ==
    IF Head(pages).error # "" THEN Thrown(Head(pages).error)
    ELSE
    LET Matches(o) ==
            LET matchesTrait ==
                    /\ o.criteria.defined
                    /\ o.criteria.trait # <<>>
                    /\ o.criteria.trait[1] = traitType
                    /\ o.criteria.trait[2] = traitValue
            IN  o.value # 0 /\ matchesTrait /\ offererMatches(o, offerer)
        filteredOffers == SelectSeq(Head(pages).orders, Matches)
    IN  IF Len(pages) > 1
        THEN LET rest == getAllTraitOffers(Tail(pages), traitType, traitValue, offerer)
             IN  IF rest.kind = "error" THEN rest
                 ELSE [kind |-> "offers", offers |-> filteredOffers \o rest.offers]
        ELSE [kind |-> "offers", offers |-> filteredOffers]

\* part_004 19-63 (and cancelOldOffers.ts 24-59): the owner's offers in the
\* scope of the target, all but the highest
getOffersToCancelForCollection(c, pages, owner) ==
    LET offerType == inferOfferType(c)
        allOffers ==
            IF offerType = "collection" THEN getAllCollectionOffers(pages, owner)
            ELSE IF offerType = "trait"
            THEN getAllTraitOffers(pages, c.trait[1], c.trait[2], owner)
            ELSE getAllOffers(pages, c.tokenId, owner)
    IN  IF allOffers.kind = "error" THEN allOffers
        ELSE IF Len(allOffers.offers) <= 1 THEN [kind |-> "offers", offers |-> <<>>]
        ELSE LET sorted ==
                     SortDescending(allOffers.offers,
                                    [k \in 1..Len(allOffers.offers) |->
                                        getOfferPricePerItem(allOffers.offers[k])])
             IN  [kind |-> "offers", offers |-> SubSeq(sorted, 2, Len(sorted))]

\* cancelOffer.ts 15-61.  sdkOk: whether seaport.cancelOrder fulfils.
cancelOffer(offer, dry, sdkOk) ==
    IF dry THEN [calls |-> <<>>, result |-> TRUE]
    ELSE IF offer.order_hash # ""
    THEN [calls |-> <<[cap |-> "cancelOrder", orderHash |-> offer.order_hash,
                       accountAddress |-> getAddress(offer.offerer)]>>,
          result |-> sdkOk]
    ELSE [calls |-> <<>>, result |-> FALSE]

\* a loop over offersToCancel that an offer without order hash would end
RECURSIVE cancelEachUntilMissingHash(_, _, _)
cancelEachUntilMissingHash(offers, dry, sdkOk) ==
    IF offers = <<>> THEN <<>>
    ELSE IF ~dry /\ Head(offers).order_hash = "" THEN <<>>
    ELSE cancelOffer(Head(offers), dry, sdkOk).calls
         \o cancelEachUntilMissingHash(Tail(offers), dry, sdkOk)

\* cancelOldOffers.ts 61-64: the loop over offersToCancel
RECURSIVE cancelEach(_, _, _)
cancelEach(offers, dry, sdkOk) ==
    IF offers = <<>> THEN <<>>
    ELSE cancelOffer(Head(offers), dry, sdkOk).calls
         \o cancelEach(Tail(offers), dry, sdkOk)

\* part_004 80-87: the targets grouped by chain, chains in order of appearance
RECURSIVE groupByChain(_, _)
groupByChain(indices, targets) ==
    IF indices = <<>> THEN <<>>
    ELSE LET chain == targets[Head(indices)].chainId
             SameChain(i) == targets[i].chainId = chain
             OtherChain(i) == targets[i].chainId # chain
         IN  <<SelectSeq(indices, SameChain)>>
             \o groupByChain(SelectSeq(indices, OtherChain), targets)

\* part_004 117-176: the batch of one chain
cancelBatch(allOffersToCancel, dry) ==
    LET HasHash(o) == o.order_hash # ""
        offersWithHashes == SelectSeq(allOffersToCancel, HasHash)
        orderHashes == [k \in 1..Len(offersWithHashes) |-> offersWithHashes[k].order_hash]
    IN  IF Len(allOffersToCancel) = 0 THEN <<>>
        ELSE IF Len(orderHashes) = 0 THEN <<>>
        ELSE IF dry THEN <<>>
        ELSE <<[cap |-> "cancelOrders", orderHashes |-> orderHashes,
                accountAddress |-> getAddress(allOffersToCancel[1].offerer)]>>

---------------------------------------------------------------------------
(* Inputs: what the marketplace may answer *)

Clock == {StartTime + k * ClockStep : k \in 0..MaxClockSteps}

SeqsUpTo(S, n) == UNION {[1..k -> S] : k \in 0..n}

\* every way to serve the orders s on one page or on two
PagingsOf(s) ==
    {<<Page(s)>>}
    \cup {<<Page(SubSeq(s, 1, k)), Page(SubSeq(s, k + 1, Len(s)))>> :
             k \in 0..(Len(s) - 1)}

FeedsOf(Orders) ==
    UNION {PagingsOf(s) : s \in SeqsUpTo(Orders, MaxFeedLen)}
    \cup {<<ErrorPage("ECONNRESET")>>}
    \cup {<<Page(<<o>>), ErrorPage("ECONNRESET")>> : o \in Orders}

Offerers == {"0xaa", "0xBb"}

\* the consideration item that pays the order's currency
CurrencyItem(currency, amount) ==
    IF toUpperCase(currency) = "ETH" THEN Item(0, ZERO_ADDRESS, "0", amount)
    ELSE IF toUpperCase(currency) = "WETH" THEN Item(1, WETH_ADDRESS, "0", amount)
    ELSE Item(1, USDC_ADDRESS, "0", amount)

\* token id, number of items and currency of the listings on the market
ListingShapes ==
    {<<"1", 1, "ETH">>, <<"1", 2, "weth">>, <<"1", 1, "USDC">>, <<"2", 1, "ETH">>}

\* an order of price step k ends EndTimeLead * k seconds after StartTime
EndTimeLead == 300

ListingOrder(who, value, sh) ==
    Order("", who, value, sh[3], <<Item(2, "nft", sh[1], sh[2])>>,
          <<CurrencyItem(sh[3], value)>>, NoCriteria,
          StartTime + EndTimeLead * (value \div ListingStep))

\* the listings on the market; the zero-priced ones are invalid (burned) orders
ListingOrders ==
    {ListingOrder(who, k * ListingStep, sh) :
        who \in Offerers, k \in 1..MaxListingSteps, sh \in ListingShapes}
    \cup {ListingOrder(who, 0, <<"1", 1, "ETH">>) : who \in Offerers}

ListingFeeds == FeedsOf(ListingOrders)

\* answers to the queries of a target: the feed of its collection and, for a
\* target that is not compared across the collection, the fate of getOrders
ListingApis(c) ==
    IF c.shouldCompareToRest
    THEN {[pages |-> f, ordersErrorIsError |-> TRUE, ordersError |-> ""] : f \in ListingFeeds}
    ELSE {[pages |-> f, ordersErrorIsError |-> TRUE, ordersError |-> e] : f \in ListingFeeds, e \in {"", SortingMsg}}
         \cup {[pages |-> <<Page(<<>>)>>, ordersErrorIsError |-> TRUE, ordersError |-> "ETIMEDOUT"]}

\* the collections file: listing targets that pass initializeCollections
ListingTarget(tokenId, minSteps, defaultSteps, compare) ==
    [tokenId |-> tokenId, minPrice |-> minSteps * ListingStep,
     defaultPrice |-> defaultSteps * ListingStep, shouldCompareToRest |-> compare]

ListingConfig ==
    <<ListingTarget("1", 1, 1, FALSE), ListingTarget("1", 1, 3, TRUE),
      ListingTarget("1", 2, 2, TRUE), ListingTarget("2", 2, 3, FALSE)>>

\* scope, token id or trait, quantity, currency and offer side of the offers
\* on the market.  The offer side of an offer is the currency the offerer
\* pays: "total" when it carries the whole price, "unit" when it sums to 1.
OfferShape(scope, tokenId, trait, quantity, currency, side, hashed) ==
    [scope |-> scope, tokenId |-> tokenId, trait |-> trait, quantity |-> quantity,
     currency |-> currency, side |-> side, hashed |-> hashed]

OfferShapes ==
    {OfferShape("single", "1", <<>>, 1, "WETH", "unit", TRUE),
     OfferShape("single", "1", <<>>, 1, "eth", "total", TRUE),
     OfferShape("collection", NoToken, <<>>, 2, "WETH", "total", TRUE),
     OfferShape("collection", NoToken, <<>>, 1, "WETH", "total", TRUE),
     OfferShape("collection", NoToken, <<>>, 1, "USDC", "total", TRUE),
     OfferShape("trait", NoToken, <<"bg", "red">>, 1, "WETH", "total", TRUE),
     OfferShape("trait", NoToken, <<"bg", "blue">>, 2, "WETH", "total", FALSE)}

OfferOrder(who, value, sh) ==
    Order(IF sh.hashed
          THEN who \o ToString(value) \o sh.scope \o sh.tokenId
               \o ToString(sh.quantity) \o sh.currency
          ELSE "",
          who, value, sh.currency,
          <<CurrencyItem(sh.currency, IF sh.side = "total" THEN value ELSE 1)>>,
          IF sh.scope = "single"
          THEN <<Item(2, "nft", sh.tokenId, sh.quantity)>>
          ELSE <<Item(4, "nft", "0", sh.quantity)>>,
          IF sh.scope = "single" THEN NoCriteria
          ELSE IF sh.scope = "trait" THEN TraitCriteria(sh.trait[1], sh.trait[2])
          ELSE CollectionCriteria,
          StartTime + EndTimeLead * value)

\* the offers on the market; the zero-priced ones are invalid orders
OfferOrders ==
    {OfferOrder(who, v, sh) :
        who \in Offerers, v \in 1..MaxOfferUnits, sh \in OfferShapes}
    \cup {OfferOrder(Owner, 0, OfferShape("collection", NoToken, <<>>, 1, "WETH",
                                          "total", TRUE))}

OfferFeeds == FeedsOf(OfferOrders)

OfferApis(c) ==
    IF inferOfferType(c) = "single" /\ ~c.shouldCompareToRest
    THEN {[pages |-> f, ordersErrorIsError |-> TRUE, ordersError |-> e] : f \in OfferFeeds, e \in {"", SortingMsg}}
         \cup {[pages |-> <<Page(<<>>)>>, ordersErrorIsError |-> TRUE, ordersError |-> "ETIMEDOUT"]}
    ELSE {[pages |-> f, ordersErrorIsError |-> TRUE, ordersError |-> ""] : f \in OfferFeeds}

\* what the cancellation reads: the owner's offers and one offer of another
\* account
OwnOfferOrders ==
    {OfferOrder("0xaa", v, sh) : v \in 1..MaxOfferUnits, sh \in OfferShapes}
    \cup {OfferOrder("0xBb", MaxOfferUnits,
                     OfferShape("collection", NoToken, <<>>, 1, "WETH", "total", TRUE))}

\* three offers of the owner for one scope; the second of them may lack its
\* order hash
RedundantOfferFeeds ==
    {<<Page(<<OfferOrder("0xaa", MaxOfferUnits, sh),
              [OfferOrder("0xaa", 2, sh) EXCEPT
                  !.order_hash = IF hashed THEN @ ELSE ""],
              OfferOrder("0xaa", 1, sh)>>)>> :
        sh \in {OfferShape("single", "1", <<>>, 1, "eth", "total", TRUE),
                OfferShape("collection", NoToken, <<>>, 1, "WETH", "total", TRUE)},
        hashed \in BOOLEAN}

OwnOfferFeeds == FeedsOf(OwnOfferOrders) \cup RedundantOfferFeeds

\* the collections file: offer targets that pass initializeOfferCollections
OfferTarget(chainId, tokenId, trait, defaultPrice, maxPrice, quantity, compare) ==
    [chainId |-> chainId, tokenId |-> tokenId, trait |-> trait,
     defaultPrice |-> defaultPrice, maxPrice |-> maxPrice, quantity |-> quantity,
     shouldCompareToRest |-> compare]

OfferConfig ==
    <<OfferTarget(1, NoToken, <<>>, 1, MaxOfferUnits - 1, 2, FALSE),
      OfferTarget(360, NoToken, <<>>, MaxOfferUnits, MaxOfferUnits, 1, FALSE),
      OfferTarget(999, NoToken, <<"bg", "red">>, 2, MaxOfferUnits - 1, 2, FALSE),
      OfferTarget(1, "1", <<>>, MaxOfferUnits - 1, MaxOfferUnits - 1, 1, FALSE),
      OfferTarget(1, "1", <<>>, 1, MaxOfferUnits - 1, 1, TRUE)>>

\* the lists of targets cancelRedundantOffers is called with
MaxBatchTargets == 2
BatchLists ==
    {[k \in 1..n |-> first + k - 1] :
        first \in 1..Len(OfferConfig), n \in 1..MaxBatchTargets}
    \cap SeqsUpTo(1..Len(OfferConfig), MaxBatchTargets)

---------------------------------------------------------------------------
(* Calls of the retry wrappers: options and what fn() ends with *)

\* no call of a wrapper has been made yet
NoRetry ==
    [wrapper |-> "none", maxRetries |-> 0, baseDelayMs |-> 0, maxDelayMs |-> 0,
     retryableErrors |-> <<>>, attempt |-> 0, invocations |-> 0, delays |-> <<>>,
     status |-> "idle", last |-> Fulfilled, settled |-> Fulfilled]

RetryWrappers == {"withRetry", "withRateLimitRetry"}
MaxRetriesOptions == {UndefinedOption, Option(0), Option(1)}
BaseDelayOptions == {UndefinedOption, Option(20000)}
RetryableErrorsOptions == {DEFAULT_RETRYABLE_ERRORS, <<"reverted">>}

FnOutcomes ==
    { Fulfilled,
      Rejection(TRUE, Str(<<"request", "timeout">>), Missing, Missing),
      Rejection(TRUE, Str(<<"read", "econnreset">>), Num(104), Missing),
      Rejection(TRUE, Str(<<"failed">>), Str(<<"ETIMEDOUT">>), Missing),
      Rejection(TRUE, Str(<<"execution", "reverted">>), Missing, Missing),
      Rejection(TRUE, Str(<<"failed">>), Num(429), Missing),
      Rejection(FALSE, Missing, Missing, Missing),
      Rejection(TRUE, Str(<<"failed">>), Missing, Num(2)),
      Rejection(TRUE, Str(<<"request", "timeout">>), Missing, Num(60)),
      Rejection(TRUE, Missing, Missing, Num(0)),
      Rejection(TRUE, Missing, Missing, NotANumber) }

---------------------------------------------------------------------------
(* Calls of the query functions on their own: feeds and arguments *)

\* orders in one feed given to a query function (all pages together)
MaxProbeFeedLen == 3
\* prices of the listings in these feeds, in steps of ListingStep
MaxProbeListingSteps == 2
\* prices of the offers in these feeds, in smallest units
MaxProbeOfferUnits == 2

\* no query function has been called yet
NoProbe == [fn |-> "none"]

\* every way to serve the orders s on one page or on two; a page may be empty
ProbePagingsOf(s) ==
    {<<Page(s)>>}
    \cup {<<Page(SubSeq(s, 1, k)), Page(SubSeq(s, k + 1, Len(s)))>> : k \in 0..Len(s)}

ProbeFeedsOf(Orders) == UNION {ProbePagingsOf(s) : s \in SeqsUpTo(Orders, MaxProbeFeedLen)}

ProbeListingOrders ==
    {ListingOrder(who, k * ListingStep, sh) :
        who \in Offerers, k \in 1..MaxProbeListingSteps,
        sh \in {<<"1", 1, "ETH">>, <<"1", 2, "ETH">>}}
    \cup {ListingOrder("0xBb", ListingStep, <<"2", 1, "ETH">>),
          ListingOrder("0xaa", 0, <<"1", 1, "ETH">>)}

ProbeOfferShapes ==
    {OfferShape("single", "1", <<>>, 1, "WETH", "unit", TRUE),
     OfferShape("single", "1", <<>>, 1, "eth", "total", TRUE),
     OfferShape("collection", NoToken, <<>>, 2, "WETH", "total", TRUE),
     OfferShape("trait", NoToken, <<"bg", "red">>, 1, "WETH", "total", TRUE)}

ProbeOfferOrders ==
    {OfferOrder("0xBb", v, sh) : v \in 1..MaxProbeOfferUnits, sh \in ProbeOfferShapes}
    \cup {OfferOrder("0xaa", MaxProbeOfferUnits, sh) :
             sh \in {sh \in ProbeOfferShapes : sh.side = "total" /\ sh.quantity = 1}}
    \cup {OfferOrder("0xaa", 0, OfferShape("single", "1", <<>>, 1, "WETH", "total", TRUE))}

\* the owner's offers of every price, and one offer of another account
ProbeOwnOfferOrders ==
    {OfferOrder("0xaa", v, sh) : v \in 1..MaxOfferUnits, sh \in ProbeOfferShapes}
    \cup {OfferOrder("0xBb", MaxOfferUnits,
                     OfferShape("collection", NoToken, <<>>, 2, "WETH", "total", TRUE))}

---------------------------------------------------------------------------
(* State machine *)

\* index.ts: main() is not what is looked at
NoMain == [phase |-> "none"]
\* the marketplace does not keep the orders the engines submit
NoMarket == [phase |-> "none"]

Init ==
    /\ dryRun \in BOOLEAN
    /\ collections = ListingConfig
    /\ offerCollections = OfferConfig
    /\ now = StartTime
    /\ pc = "idle"
    /\ engine = "none"
    /\ cur = 0
    /\ bestOrder = Undefined
    /\ ourOrder = Undefined
    /\ branch = "none"
    /\ raised = ""
    /\ request = NoRequest
    /\ sdkCalls = <<>>
    /\ cancelQueue = <<>>
    /\ offersToCancel = <<>>
    /\ retry = NoRetry
    /\ probe = NoProbe
    /\ main = NoMain
    /\ market = NoMarket

config == <<dryRun, collections, offerCollections>>

\* the outcomes the clock of the model has room for: a rate-limited request
\* is drawn at the clock readings of Clock that leave room for the wait
MarketOutcomes(outcomes, currentTime) ==
    IF currentTime \in Clock
       /\ currentTime + rateLimitWait <= StartTime + MaxClockSteps * ClockStep
    THEN outcomes
    ELSE outcomes \ {"rate limited, then ok"}

\* the time of the last send of an evaluation, t if it sent nothing
lastSendOr(t, calls) ==
    LET times == {calls[k].sentAt :
                    k \in {j \in 1..Len(calls) : calls[j].cap \notin {"cancelOrder", "cancelOrders"}}}
    IN  IF times = {} THEN t ELSE CHOOSE m \in times : \A x \in times : x <= m

\* the evaluation ends by raising msg (caught and logged by the polling loop)
Raise(msg) ==
    /\ pc' = "done"
    /\ branch' = "threw"
    /\ raised' = msg
    /\ request' = NoRequest
    /\ sdkCalls' = <<>>

\* the evaluation ends without calling a creation primitive
Skip(b) ==
    /\ pc' = "done"
    /\ branch' = b
    /\ raised' = ""
    /\ request' = NoRequest
    /\ sdkCalls' = <<>>

\* monitorCollection.ts 97: the call of createListing that ends the evaluation
SubmitListing(c, d, currentTime) ==
    \E outcome \in (IF dryRun THEN {"ok"} ELSE MarketOutcomes(ListingOutcomes, currentTime)) :
        LET r == createListing(c.tokenId, d.price, d.expirationTime, Owner, dryRun,
                               currentTime, outcome)
        IN  /\ pc' = "done"
            /\ branch' = d.branch
            /\ request' = [kind |-> "createListing", tokenId |-> c.tokenId,
                           price |-> d.price, expirationTime |-> d.expirationTime,
                           owner |-> Owner, dryRun |-> dryRun]
            /\ sdkCalls' = r.calls
            /\ raised' = r.error

\* monitorCollection.ts 23-97, up to the end or to the re-query of line 76
MonitorCollection(i) ==
    /\ pc = "idle"
    /\ \E api \in ListingApis(collections[i]) :
        LET c == collections[i]
            t == now
            bestListing ==
                IF c.shouldCompareToRest
                THEN getBestListing(api.pages, NoToken, NoOfferer)
                ELSE getSingleBestListing(api, c.tokenId)
        IN  /\ engine' = "listing"
            /\ cur' = i
            /\ bestOrder' = bestListing
            /\ ourOrder' = Undefined
            /\ IF bestListing.kind = "error" THEN Raise(bestListing.message)
               ELSE LET d == monitorCollectionDecide(c, bestListing, Owner, t)
                    IN  IF d.branch = "requery"
                        THEN /\ pc' = "listing_requery"
                             /\ branch' = "requery"
                             /\ raised' = ""
                             /\ request' = NoRequest
                             /\ sdkCalls' = <<>>
                        ELSE IF ListingSubmits(d.branch) THEN SubmitListing(c, d, t)
                        ELSE Skip(d.branch)
    /\ UNCHANGED <<config, main, market, retry, probe, now, cancelQueue, offersToCancel>>

\* monitorCollection.ts 76-97: the answer to the re-query arrives
MonitorCollectionRequery ==
    /\ pc = "listing_requery"
    /\ \E f \in ListingFeeds :
        LET c == collections[cur]
            t == now
            ourListing == getBestListing(f, c.tokenId, Owner)
        IN  /\ ourOrder' = ourListing
            /\ IF ourListing.kind = "error" THEN Raise(ourListing.message)
               ELSE LET d == monitorCollectionFloor(c, ourListing, t)
                    IN  IF ListingSubmits(d.branch) THEN SubmitListing(c, d, t)
                        ELSE Skip(d.branch)
    /\ UNCHANGED <<config, main, market, retry, probe, now, engine, cur, bestOrder, cancelQueue, offersToCancel>>

\* getBestTraitOffer.ts 266-330: the call of the creation primitive that ends
\* the evaluation
SubmitOffer(c, d, currentTime) ==
    \E outcome \in (IF dryRun THEN {"ok"}
                     ELSE MarketOutcomes(SdkOutcomes(inferOfferType(c)), currentTime)) :
        LET offerType == inferOfferType(c)
            paymentTokenAddress == getPaymentTokenAddress("WETH", c.chainId)
            quantity == IF c.quantity = 0 THEN 1 ELSE c.quantity
            finalPrice == offerFinalPrice(c, d.price)
            r == IF offerType = "collection"
                 THEN createCollectionOffer(finalPrice, d.expirationTime, Owner,
                                            quantity, paymentTokenAddress, dryRun,
                                            currentTime, outcome)
                 ELSE IF offerType = "trait"
                 THEN createTraitOffer(c.trait[1], c.trait[2], finalPrice,
                                       d.expirationTime, Owner, quantity,
                                       paymentTokenAddress, dryRun, currentTime,
                                       outcome)
                 ELSE createOffer(c.tokenId, finalPrice, d.expirationTime, Owner,
                                  paymentTokenAddress, dryRun, currentTime, outcome)
        IN  /\ pc' = "done"
            /\ branch' = d.branch
            /\ request' = [kind |-> IF offerType = "collection" THEN "createCollectionOffer"
                                    ELSE IF offerType = "trait" THEN "createTraitOffer"
                                    ELSE "createOffer",
                           tokenId |-> c.tokenId, trait |-> c.trait,
                           price |-> finalPrice, quantity |-> quantity,
                           expirationTime |-> d.expirationTime, owner |-> Owner,
                           paymentTokenAddress |-> paymentTokenAddress,
                           dryRun |-> dryRun]
            /\ sdkCalls' = r.calls
            /\ raised' = r.error

\* getBestTraitOffer.ts 121-331, up to the end or to the re-query of line 224
MonitorOffer(i) ==
    /\ pc = "idle"
    /\ \E api \in OfferApis(offerCollections[i]) :
        LET c == offerCollections[i]
            t == now
            offerType == inferOfferType(c)
            bestOffer ==
                IF offerType = "collection"
                THEN getBestCollectionOffer(api.pages, NoOfferer, NoMaxPrice)
                ELSE IF offerType = "trait"
                THEN getBestTraitOffer(api.pages, c.trait[1], c.trait[2], NoOfferer)
                ELSE IF c.shouldCompareToRest
                THEN getBestOffer(api.pages, NoToken, NoOfferer)
                ELSE getSingleBestOffer(api, c.tokenId)
        IN  /\ engine' = "offer"
            /\ cur' = i
            /\ bestOrder' = bestOffer
            /\ ourOrder' = Undefined
            /\ IF bestOffer.kind = "error" THEN Raise(bestOffer.message)
               ELSE LET d == monitorOfferDecide(c, bestOffer, Owner, t)
                    IN  IF d.branch = "requery"
                        THEN /\ pc' = "offer_requery"
                             /\ branch' = "requery"
                             /\ raised' = ""
                             /\ request' = NoRequest
                             /\ sdkCalls' = <<>>
                        ELSE IF OfferSubmits(d.branch) THEN SubmitOffer(c, d, t)
                        ELSE Skip(d.branch)
    /\ UNCHANGED <<config, main, market, retry, probe, now, cancelQueue, offersToCancel>>

\* getBestTraitOffer.ts 224-330: the answer to the re-query arrives
MonitorOfferRequery ==
    /\ pc = "offer_requery"
    /\ \E f \in OfferFeeds :
        LET c == offerCollections[cur]
            t == now
            offerType == inferOfferType(c)
            expirationTime ==
                deriveExpirationTime(<<bestOrder.endTime>>, DEFAULT_EXPIRATION_TIME, t)
            ourOffer ==
                IF offerType = "collection"
                THEN getBestCollectionOffer(f, Owner, NoMaxPrice)
                ELSE IF offerType = "trait"
                THEN getBestTraitOffer(f, c.trait[1], c.trait[2], Owner)
                ELSE getBestOffer(f, c.tokenId, Owner)
        IN  /\ ourOrder' = ourOffer
            /\ IF ourOffer.kind = "error" THEN Raise(ourOffer.message)
               ELSE LET d == monitorOfferOverMax(c, ourOffer, expirationTime)
                    IN  IF OfferSubmits(d.branch) THEN SubmitOffer(c, d, t)
                        ELSE Skip(d.branch)
    /\ UNCHANGED <<config, main, market, retry, probe, now, engine, cur, bestOrder, cancelQueue, offersToCancel>>

\* cancelOldOffers.ts 18-65: one target of the stale-offers loop of index.ts
CancelOldOffers(i) ==
    /\ pc = "idle"
    /\ \E f \in OwnOfferFeeds, sdkOk \in (IF dryRun THEN {TRUE} ELSE BOOLEAN) :
        LET c == offerCollections[i]
            gathered == getOffersToCancelForCollection(c, f, Owner)
        IN  /\ engine' = "cancelOldOffers"
            /\ cur' = i
            /\ pc' = "done"
            /\ request' = NoRequest
            /\ IF gathered.kind = "error"
               THEN /\ branch' = "threw"
                    /\ raised' = gathered.message
                    /\ offersToCancel' = <<>>
                    /\ sdkCalls' = <<>>
               ELSE /\ branch' = IF gathered.offers = <<>> THEN "nothing" ELSE "cancel"
                    /\ raised' = ""
                    /\ offersToCancel' = gathered.offers
                    /\ sdkCalls' = cancelEach(gathered.offers, dryRun, sdkOk)
    /\ UNCHANGED <<config, main, market, retry, probe, now, bestOrder, ourOrder, cancelQueue>>

\* part_004 74-87: cancelRedundantOffers is called with a list of targets
CancelRedundantOffers(list) ==
    /\ pc = "idle"
    /\ pc' = "cancel_chain"
    /\ engine' = "cancelRedundantOffers"
    /\ cancelQueue' = groupByChain(list, offerCollections)
    /\ UNCHANGED <<config, main, market, retry, probe, now, cur, bestOrder, ourOrder, branch, raised, request,
                   sdkCalls, offersToCancel>>

\* part_004 90-180: the offers of the next target arrive; after the last
\* target of a chain the batch of the chain is cancelled
GatherOffersToCancel ==
    /\ pc \in {"cancel_chain", "cancel_gather"}
    /\ \E f \in OwnOfferFeeds :
        LET chainCollections == Head(cancelQueue)
            i == Head(chainCollections)
            gathered == getOffersToCancelForCollection(offerCollections[i], f, Owner)
            before == IF pc = "cancel_chain" THEN <<>> ELSE offersToCancel
            allOffersToCancel ==
                IF gathered.kind = "error" THEN before ELSE before \o gathered.offers
        IN  /\ cur' = i
            /\ raised' = IF gathered.kind = "error" THEN gathered.message ELSE ""
            /\ offersToCancel' = allOffersToCancel
            /\ IF Len(chainCollections) > 1
               THEN /\ pc' = "cancel_gather"
                    /\ cancelQueue' = <<Tail(chainCollections)>> \o Tail(cancelQueue)
                    /\ UNCHANGED <<branch, sdkCalls>>
               ELSE /\ pc' = IF Len(cancelQueue) > 1 THEN "cancel_chain" ELSE "done"
                    /\ cancelQueue' = Tail(cancelQueue)
                    /\ branch' = IF allOffersToCancel = <<>> THEN "nothing" ELSE "cancel"
                    /\ sdkCalls' = sdkCalls \o cancelBatch(allOffersToCancel, dryRun)
    /\ UNCHANGED <<config, main, market, retry, probe, now, engine, bestOrder, ourOrder, request>>

\* the polling loop goes on to its next evaluation; the clock has moved by
\* what the evaluation waited
NextEvaluation ==
    /\ pc = "done"
    /\ pc' = "idle"
    /\ engine' = "none"
    /\ cur' = 0
    /\ bestOrder' = Undefined
    /\ ourOrder' = Undefined
    /\ branch' = "none"
    /\ raised' = ""
    /\ request' = NoRequest
    /\ sdkCalls' = <<>>
    /\ cancelQueue' = <<>>
    /\ offersToCancel' = <<>>
    /\ now' = lastSendOr(now, sdkCalls)
    /\ UNCHANGED <<config, main, market, retry, probe>>

\* time passes while a loop sleeps or waits for the marketplace
Tick ==
    /\ pc \in {"idle", "listing_requery", "offer_requery"}
    /\ now + ClockStep \in Clock
    /\ now' = now + ClockStep
    /\ UNCHANGED <<config, main, market, retry, probe, pc, engine, cur, bestOrder, ourOrder, branch, raised,
                   request, sdkCalls, cancelQueue, offersToCancel>>

\* ratelimit.ts 3-15, 41-61: a wrapper is called; the options are read and
\* the attempt counter is set
RetryCall(wrapper) ==
    /\ retry.status # "running"
    /\ \E maxRetries \in MaxRetriesOptions, baseDelayMs \in BaseDelayOptions,
          retryableErrors \in RetryableErrorsOptions :
        retry' = [wrapper |-> wrapper,
                  maxRetries |-> orDefault(maxRetries, DEFAULT_MAX_RETRIES),
                  baseDelayMs |-> orDefault(baseDelayMs, DEFAULT_BASE_DELAY_MS),
                  maxDelayMs |-> orDefault(UndefinedOption, DEFAULT_MAX_DELAY_MS),
                  retryableErrors |->
                      IF wrapper = "withRetry" THEN retryableErrors ELSE <<>>,
                  attempt |-> attemptAtStart(retry.attempt),
                  invocations |-> 0, delays |-> <<>>, status |-> "running",
                  last |-> Fulfilled, settled |-> Fulfilled]
    /\ UNCHANGED <<config, main, market, probe, now, pc, engine, cur, bestOrder, ourOrder, branch, raised,
                   request, sdkCalls, cancelQueue, offersToCancel>>

\* ratelimit.ts 16-32, 62-86: one turn of the loop, fn() invoked and its
\* rejection handled (the delay is waited for before the next turn)
RetryInvoke ==
    /\ retry.status = "running"
    /\ \E r \in FnOutcomes :
        LET caught ==
                IF retry.wrapper = "withRetry"
                THEN withRetryCatch(r, retry.attempt, retry.maxRetries,
                                    retry.baseDelayMs, retry.maxDelayMs,
                                    retry.retryableErrors)
                ELSE withRateLimitRetryCatch(r, retry.attempt, retry.maxRetries,
                                             retry.baseDelayMs, retry.maxDelayMs)
            invoked == [retry EXCEPT !.invocations = @ + 1, !.last = r]
        IN  retry' =
                IF r.kind = "value"
                THEN [invoked EXCEPT !.status = "resolved", !.settled = r]
                ELSE IF caught.then = "retry"
                THEN [invoked EXCEPT !.attempt = @ + 1,
                                     !.delays = Append(@, caught.delay)]
                ELSE [invoked EXCEPT !.status = "rejected", !.settled = caught.error]
    /\ UNCHANGED <<config, main, market, probe, now, pc, engine, cur, bestOrder, ourOrder, branch, raised,
                   request, sdkCalls, cancelQueue, offersToCancel>>

Next ==
    \/ \E i \in 1..Len(collections) : MonitorCollection(i)
    \/ MonitorCollectionRequery
    \/ \E i \in 1..Len(offerCollections) : MonitorOffer(i)
    \/ MonitorOfferRequery
    \/ \E i \in 1..Len(offerCollections) : CancelOldOffers(i)
    \/ \E list \in BatchLists : CancelRedundantOffers(list)
    \/ GatherOffersToCancel
    \/ NextEvaluation
    \/ Tick

Spec == Init /\ [][Next]_vars

\* the retry wrappers on their own, called one after the other
RetryNext ==
    \/ \E wrapper \in RetryWrappers : RetryCall(wrapper)
    \/ RetryInvoke

RetrySpec == Init /\ [][RetryNext]_vars

\* a call of getBestListing (getBestListing.ts 16-68) on a feed
CallGetBestListing ==
    \E pages \in ProbeFeedsOf(ProbeListingOrders), tokenId \in {NoToken, "1"},
       offerer \in {NoOfferer, Owner} :
        probe' = [fn |-> "getBestListing", pages |-> pages, tokenId |-> tokenId,
                  trait |-> <<>>, offerer |-> offerer,
                  result |-> getBestListing(pages, tokenId, offerer)]

\* a call of getSingleBestListing (getSingleBestListing.ts 14-32) that
\* getOrders answers
CallGetSingleBestListing ==
    \E pages \in ProbeFeedsOf(ProbeListingOrders) :
        probe' = [fn |-> "getSingleBestListing", pages |-> pages, tokenId |-> "1",
                  trait |-> <<>>, offerer |-> NoOfferer,
                  result |-> getSingleBestListing([pages |-> pages, ordersErrorIsError |-> TRUE, ordersError |-> ""],
                                                  "1")]

\* a call of getBestOffer (createTraitOffer.ts 58-106) on a feed
CallGetBestOffer ==
    \E pages \in ProbeFeedsOf(ProbeOfferOrders), tokenId \in {NoToken, "1"},
       offerer \in {NoOfferer, Owner} :
        probe' = [fn |-> "getBestOffer", pages |-> pages, tokenId |-> tokenId,
                  trait |-> <<>>, offerer |-> offerer,
                  result |-> getBestOffer(pages, tokenId, offerer)]

\* a call of getBestCollectionOffer (paymentTokens.ts 130-189) on a feed
CallGetBestCollectionOffer ==
    \E pages \in ProbeFeedsOf(ProbeOfferOrders), offerer \in {NoOfferer, Owner} :
        probe' = [fn |-> "getBestCollectionOffer", pages |-> pages, tokenId |-> NoToken,
                  trait |-> <<>>, offerer |-> offerer,
                  result |-> getBestCollectionOffer(pages, offerer, NoMaxPrice)]

\* a call of the getBestCollectionOffer of part_006 15-62 on a feed
CallGetBestCollectionOfferPart006 ==
    \E pages \in ProbeFeedsOf(ProbeOfferOrders), offerer \in {NoOfferer, Owner} :
        probe' = [fn |-> "getBestCollectionOffer (part_006)", pages |-> pages,
                  tokenId |-> NoToken, trait |-> <<>>, offerer |-> offerer,
                  result |-> getBestCollectionOfferPart006(pages, offerer)]

\* a call of getBestTraitOffer (getBestTraitOffer.ts 17-77) on a feed
CallGetBestTraitOffer ==
    \E pages \in ProbeFeedsOf(ProbeOfferOrders), offerer \in {NoOfferer, Owner} :
        probe' = [fn |-> "getBestTraitOffer", pages |-> pages, tokenId |-> NoToken,
                  trait |-> <<"bg", "red">>, offerer |-> offerer,
                  result |-> getBestTraitOffer(pages, "bg", "red", offerer)]

\* a call of getSingleBestOffer (getSingleBestOffer.ts 15-33) that getOrders
\* answers
CallGetSingleBestOffer ==
    \E pages \in ProbeFeedsOf(ProbeOfferOrders) :
        probe' = [fn |-> "getSingleBestOffer", pages |-> pages, tokenId |-> "1",
                  trait |-> <<>>, offerer |-> NoOfferer,
                  result |-> getSingleBestOffer([pages |-> pages, ordersErrorIsError |-> TRUE, ordersError |-> ""],
                                                "1")]

\* a call of getOffersToCancelForCollection (part_004 19-63) for a target
CallGetOffersToCancel ==
    \E pages \in ProbeFeedsOf(ProbeOwnOfferOrders), i \in 1..Len(offerCollections) :
        probe' = [fn |-> "getOffersToCancelForCollection", pages |-> pages,
                  tokenId |-> offerCollections[i].tokenId,
                  trait |-> offerCollections[i].trait, offerer |-> Owner,
                  result |-> getOffersToCancelForCollection(offerCollections[i], pages,
                                                            Owner)]

\* the query functions on their own: one call on one feed
QueryNext ==
    /\ probe = NoProbe
    /\ \/ CallGetBestListing
       \/ CallGetSingleBestListing
       \/ CallGetBestOffer
       \/ CallGetBestCollectionOffer
       \/ CallGetBestCollectionOfferPart006
       \/ CallGetBestTraitOffer
       \/ CallGetSingleBestOffer
       \/ CallGetOffersToCancel
    /\ UNCHANGED <<config, main, market, retry, now, pc, engine, cur, bestOrder, ourOrder, branch,
                   raised, request, sdkCalls, cancelQueue, offersToCancel>>

QuerySpec == Init /\ [][QueryNext]_vars

---------------------------------------------------------------------------
(* Properties *)

Min(a, b) == IF a <= b THEN a ELSE b

IsOrder(o) == o.kind = "order"
OwnedByOwner(o) == toLowerCase(getAddress(o.offerer)) = toLowerCase(Owner)
PricedInEth(o) == toUpperCase(o.currency) \in {"ETH", "WETH"}

ListingEvaluated == engine = "listing" /\ pc = "done"
OfferEvaluated == engine = "offer" /\ pc = "done"
CreationKinds ==
    {"createListing", "createOffer", "createCollectionOffer", "createTraitOffer"}
OfferCreationKinds == {"createOffer", "createCollectionOffer", "createTraitOffer"}
CreationCaps == {"createListing", "createOffer", "createCollectionOffer"}
CancellationCaps == {"cancelOrder", "cancelOrders"}

\* the per-unit price of the offer handed to a creation primitive
RequestedPerUnit ==
    IF request.kind = "createOffer" THEN request.price
    ELSE request.price \div request.quantity

\* C1: every price monitorCollection passes to createListing lies between the
\* minPrice and the defaultPrice of its target.
C1_ListingPriceWithinBounds ==
    request.kind = "createListing" =>
        /\ collections[cur].minPrice <= request.price
        /\ request.price <= collections[cur].defaultPrice

\* C2: the per-unit price of every offer monitorOffer hands to a creation
\* primitive (total price over the quantity for collection and trait targets,
\* the price itself for single-token targets) is at most the maxPrice of its
\* target.
C2_OfferPriceWithinMax ==
    request.kind \in OfferCreationKinds =>
        RequestedPerUnit <= offerCollections[cur].maxPrice

\* C3: in both engines, when the offerer of the best competing order is the
\* owner (checksummed addresses compared without regard to case), the
\* evaluation ends with no creation primitive called and no creation
\* capability of the marketplace invoked.
C3_OwnBestOrderNoCreation ==
    (engine \in {"listing", "offer"} /\ IsOrder(bestOrder) /\ OwnedByOwner(bestOrder)) =>
        /\ request = NoRequest
        /\ sdkCalls = <<>>
        /\ pc = "done"

C3_Witness ==
    /\ OfferEvaluated
    /\ IsOrder(bestOrder)
    /\ bestOrder.offerer = "0xaa"
    /\ PricedInEth(bestOrder)
    /\ branch = "skip_owner"
    /\ ~dryRun

\* C4: with dry-run enabled, no creation and no cancellation capability of
\* the marketplace is invoked, in any evaluation of the listings loop, the
\* offers loop or the cancellation of redundant offers.
C4_DryRunInvokesNothing ==
    dryRun =>
        \A k \in 1..Len(sdkCalls) :
            sdkCalls[k].cap \notin (CreationCaps \cup CancellationCaps)

C4_Witness ==
    /\ dryRun
    /\ ListingEvaluated
    /\ request.kind = "createListing"
    /\ branch = "undercut"
    /\ sdkCalls = <<>>

\* C5: when the best competing listing is of another address, priced in ETH
\* or WETH, at a per-item price p >= minPrice (p = minPrice included), the
\* listing engine takes the undercut branch and passes to createListing the
\* price min(floor(p / 1000) * 1000 - 1000, defaultPrice) with the end time
\* of the competing listing as expiration.
C5_Undercut ==
    (/\ ListingEvaluated
     /\ IsOrder(bestOrder)
     /\ PricedInEth(bestOrder)
     /\ ~OwnedByOwner(bestOrder)
     /\ bestOrder.value \div SumEndAmounts(bestOrder.offer) >= collections[cur].minPrice) =>
        LET p == bestOrder.value \div SumEndAmounts(bestOrder.offer)
        IN  /\ branch = "undercut"
            /\ request.kind = "createListing"
            /\ request.price = Min((p \div 1000) * 1000 - 1000, collections[cur].defaultPrice)
            /\ request.expirationTime = bestOrder.endTime

C5_Witness ==
    /\ ListingEvaluated
    /\ IsOrder(bestOrder)
    /\ ~OwnedByOwner(bestOrder)
    /\ bestOrder.value \div SumEndAmounts(bestOrder.offer) = collections[cur].minPrice
    /\ branch = "undercut"
    /\ request.price = (collections[cur].minPrice \div 1000) * 1000 - 1000
    /\ request.price < collections[cur].defaultPrice

\* the per-item price the offer engine reads from an offer: its total price
\* over its quantity for collection and trait targets, over the sum of its
\* offer-side end amounts for single-token targets
CompetingPerItem(c, o) ==
    IF c.tokenId = NoToken THEN o.value \div getOfferQuantity(o)
    ELSE o.value \div SumEndAmounts(o.offer)

RoundedDown(price) == (price \div UnitsPerIncrement) * UnitsPerIncrement

OutbidCase ==
    /\ OfferEvaluated
    /\ IsOrder(bestOrder)
    /\ PricedInEth(bestOrder)
    /\ ~OwnedByOwner(bestOrder)
    /\ CompetingPerItem(offerCollections[cur], bestOrder) <= offerCollections[cur].maxPrice

FloorCase ==
    /\ ListingEvaluated
    /\ IsOrder(bestOrder)
    /\ PricedInEth(bestOrder)
    /\ ~OwnedByOwner(bestOrder)
    /\ bestOrder.value \div SumEndAmounts(bestOrder.offer) < collections[cur].minPrice

OwnerFilteredOrNone(o) == IsOrder(o) => OwnedByOwner(o)

\* C7 as stated: in the floor case (best competing listing of another
\* address, in ETH or WETH, at a per-item price p < minPrice) the listings are
\* queried again for the owner's; if the owner holds a listing at a per-item
\* price <= minPrice nothing is submitted, otherwise exactly minPrice is
\* submitted with an expiration of now + 12 hours.
C7_FloorAnyCurrency ==
    (FloorCase /\ ourOrder.kind # "error") =>
        /\ OwnerFilteredOrNone(ourOrder)
        /\ IF IsOrder(ourOrder)
              /\ ourOrder.value \div SumEndAmounts(ourOrder.offer) <= collections[cur].minPrice
           THEN request = NoRequest /\ sdkCalls = <<>>
           ELSE /\ request.kind = "createListing"
                /\ request.price = collections[cur].minPrice
                /\ request.expirationTime = now + 12 * 60 * 60

\* C7 amended: in the floor case the listings of the target token are queried
\* again for the owner's; if the query returns a listing of the owner priced
\* in ETH or WETH at a per-item price <= minPrice nothing is submitted; if it
\* returns none, or one that is not so priced, exactly minPrice is submitted
\* with an expiration of now + 12 hours; if it fails nothing is submitted.
C7_FloorEthListing ==
    FloorCase =>
        /\ OwnerFilteredOrNone(ourOrder)
        /\ IsOrder(ourOrder) =>
              \E k \in 1..Len(ourOrder.offer) :
                  ourOrder.offer[k].identifierOrCriteria = collections[cur].tokenId
        /\ IF ourOrder.kind = "error" THEN request = NoRequest /\ sdkCalls = <<>>
           ELSE IF IsOrder(ourOrder)
                   /\ PricedInEth(ourOrder)
                   /\ ourOrder.value \div SumEndAmounts(ourOrder.offer)
                          <= collections[cur].minPrice
           THEN request = NoRequest /\ sdkCalls = <<>> /\ branch = "skip_floor"
           ELSE /\ branch = "floor"
                /\ request.kind = "createListing"
                /\ request.price = collections[cur].minPrice
                /\ request.expirationTime = now + 12 * 60 * 60

C7_Witness ==
    /\ FloorCase
    /\ IsOrder(ourOrder)
    /\ ~PricedInEth(ourOrder)
    /\ ourOrder.value <= collections[cur].minPrice
    /\ request.kind = "createListing"
    /\ request.price = collections[cur].minPrice
    /\ now > StartTime

OverMaxCase ==
    /\ OfferEvaluated
    /\ IsOrder(bestOrder)
    /\ PricedInEth(bestOrder)
    /\ ~OwnedByOwner(bestOrder)
    /\ CompetingPerItem(offerCollections[cur], bestOrder) > offerCollections[cur].maxPrice

\* the scope of an offer is the scope of the target c
InScopeOf(c, o) ==
    IF c.tokenId # NoToken
    THEN \E k \in 1..Len(o.consideration) :
            o.consideration[k].identifierOrCriteria = c.tokenId
    ELSE IF c.trait # <<>>
    THEN o.criteria.defined /\ o.criteria.trait = c.trait
    ELSE o.criteria.defined /\ o.criteria.trait = <<>>

\* C8: in the over-max case (best competing offer of another address, in ETH
\* or WETH, at a per-item price p > maxPrice) the owner's own best offer is
\* queried in the scope of the target (the token, the collection, or the same
\* trait); if that offer's per-item price is >= maxPrice nothing is submitted,
\* otherwise the per-unit price aimed at is maxPrice (submitted rounded down
\* to a multiple of the increment).
C8_OverMaxSameScope ==
    (OverMaxCase /\ ourOrder.kind # "error") =>
        LET c == offerCollections[cur]
        IN  /\ IsOrder(ourOrder) => (OwnedByOwner(ourOrder) /\ InScopeOf(c, ourOrder))
            /\ IF IsOrder(ourOrder) /\ CompetingPerItem(c, ourOrder) >= c.maxPrice
               THEN request = NoRequest /\ sdkCalls = <<>>
               ELSE /\ request.kind \in OfferCreationKinds
                    /\ RequestedPerUnit = RoundedDown(c.maxPrice)

\* C9: when the aggregator returns no competing listing, the listing engine
\* hands createListing exactly defaultPrice with an expiration of now + 5
\* months (5 * 30 * 24 * 3600 seconds).
C9_NoListingDefault ==
    (ListingEvaluated /\ bestOrder = Undefined) =>
        /\ branch = "default"
        /\ request.kind = "createListing"
        /\ request.price = collections[cur].defaultPrice
        /\ request.expirationTime = now + 12960000

C9_Witness ==
    /\ ListingEvaluated
    /\ bestOrder = Undefined
    /\ request.kind = "createListing"
    /\ request.price = collections[cur].defaultPrice
    /\ collections[cur].defaultPrice > collections[cur].minPrice
    /\ now > StartTime
    /\ ~dryRun
    /\ Len(sdkCalls) = 1

\* C10 as stated: when the aggregator returns no competing offer, the offer
\* engine submits the total price defaultPrice * quantity for collection and
\* trait targets and defaultPrice for single-token targets.
C10_NoOfferDefaultExact ==
    (OfferEvaluated /\ bestOrder = Undefined) =>
        LET c == offerCollections[cur]
        IN  /\ request.kind \in OfferCreationKinds
            /\ request.price = IF c.tokenId = NoToken THEN c.defaultPrice * c.quantity
                               ELSE c.defaultPrice

\* C10 amended: when the aggregator returns no competing offer, the offer
\* engine submits defaultPrice rounded down to a multiple of the increment,
\* times the quantity for collection and trait targets, as it is for
\* single-token targets.
C10_NoOfferDefaultRounded ==
    (OfferEvaluated /\ bestOrder = Undefined) =>
        LET c == offerCollections[cur]
        IN  /\ branch = "default"
            /\ request.kind \in OfferCreationKinds
            /\ request.price = IF c.tokenId = NoToken
                               THEN RoundedDown(c.defaultPrice) * c.quantity
                               ELSE RoundedDown(c.defaultPrice)

C10_Witness ==
    /\ OfferEvaluated
    /\ bestOrder = Undefined
    /\ request.kind = "createTraitOffer"
    /\ offerCollections[cur].quantity > 1
    /\ offerCollections[cur].defaultPrice % UnitsPerIncrement = 0
    /\ request.price = offerCollections[cur].defaultPrice * offerCollections[cur].quantity

\* C11: in both engines, when the currency symbol of the best competing order
\* is neither ETH nor WETH (compared without regard to case), the evaluation
\* ends with no creation primitive called and nothing sent to the
\* marketplace, whatever the price and the offerer of that order.
C11_CurrencyGuard ==
    (engine \in {"listing", "offer"} /\ IsOrder(bestOrder) /\ ~PricedInEth(bestOrder)) =>
        /\ pc = "done"
        /\ branch = "skip_currency"
        /\ request = NoRequest
        /\ sdkCalls = <<>>

C11_Witness ==
    /\ ListingEvaluated
    /\ IsOrder(bestOrder)
    /\ ~PricedInEth(bestOrder)
    /\ ~OwnedByOwner(bestOrder)
    /\ listingPricePerItem(bestOrder) >= collections[cur].minPrice
    /\ branch = "skip_currency"
    /\ ~dryRun

\* C12: every listing or offer request sent to the marketplace carries the
\* expiration max(requestedExpiration, now + 11 minutes), now being the clock
\* the creation primitive read, and that expiration is at least 660 seconds
\* after the time the request is sent.
C12_ExpirationFloorAtSend ==
    \A k \in 1..Len(sdkCalls) :
        sdkCalls[k].cap \in CreationCaps =>
            /\ sdkCalls[k].expirationTime = Max(request.expirationTime, now + 11 * 60)
            /\ sdkCalls[k].expirationTime >= sdkCalls[k].sentAt + 660

---------------------------------------------------------------------------
(* Properties of the query functions *)

Aggregators ==
    {"getBestListing", "getBestOffer", "getBestCollectionOffer", "getBestTraitOffer"}
OfferAggregators == Aggregators \ {"getBestListing"}

\* the orders of the feed, in feed order
ProbedOrders == Flatten(probe.pages)

\* the scope filter of the call: token, trait and offerer
ProbedScope(o) ==
    /\ offererMatches(o, probe.offerer)
    /\ probe.tokenId # NoToken =>
          \E k \in 1..Len(IF probe.fn = "getBestListing" THEN o.offer ELSE o.consideration) :
              (IF probe.fn = "getBestListing" THEN o.offer
               ELSE o.consideration)[k].identifierOrCriteria = probe.tokenId
    /\ probe.trait # <<>> =>
          o.criteria.defined /\ o.criteria.trait = probe.trait

\* positions in the feed of the orders the call has to choose from
ProbedMatching ==
    {k \in 1..Len(ProbedOrders) :
        ProbedOrders[k].value # 0 /\ ProbedScope(ProbedOrders[k])}

\* the comparison key of section 4.2
ProbedPricePerItem(o) ==
    IF probe.fn \in {"getBestListing", "getSingleBestListing"}
    THEN listingPricePerItem(o) ELSE getOfferPricePerItem(o)

\* o is at least as good as every order the call has to choose from
ProbedBest(o) ==
    \A k \in ProbedMatching :
        IF probe.fn = "getBestListing"
        THEN ProbedPricePerItem(o) <= ProbedPricePerItem(ProbedOrders[k])
        ELSE ProbedPricePerItem(o) >= ProbedPricePerItem(ProbedOrders[k])

\* C13: over every feed, a collection-wide aggregator returns a matching
\* order of nonzero price whose pricePerItem is the minimum (getBestListing)
\* or the maximum (getBestOffer, getBestCollectionOffer, getBestTraitOffer)
\* over the matching orders of all pages, and undefined exactly when there
\* is no such order.
C13_AggregatorExtremum ==
    probe.fn \in Aggregators =>
        IF ProbedMatching = {} THEN probe.result = Undefined
        ELSE /\ IsOrder(probe.result)
             /\ \E k \in ProbedMatching : ProbedOrders[k] = probe.result
             /\ ProbedBest(probe.result)

\* the aggregator of the call, applied to other pages of the same feed
ProbedAggregator(pages) ==
    IF probe.fn = "getBestListing" THEN getBestListing(pages, probe.tokenId, probe.offerer)
    ELSE IF probe.fn = "getBestOffer" THEN getBestOffer(pages, probe.tokenId, probe.offerer)
    ELSE IF probe.fn = "getBestCollectionOffer"
    THEN getBestCollectionOffer(pages, probe.offerer, NoMaxPrice)
    ELSE IF probe.fn = "getBestCollectionOffer (part_006)"
    THEN getBestCollectionOfferPart006(pages, probe.offerer)
    ELSE getBestTraitOffer(pages, probe.trait[1], probe.trait[2], probe.offerer)

CombiningAggregators == Aggregators \cup {"getBestCollectionOffer (part_006)"}

\* the candidate of the current page and the candidate of the remaining pages
PageCandidate == ProbedAggregator(<<Head(probe.pages)>>)
RestCandidate == ProbedAggregator(Tail(probe.pages))

\* C14: in every aggregator, when the candidate of the current page and the
\* candidate aggregated from the remaining pages are combined and exactly
\* one of them is undefined, the aggregator returns the defined one and
\* raises no error.
C14_CombinePrefersDefined ==
    (/\ probe.fn \in CombiningAggregators
     /\ Len(probe.pages) > 1
     /\ (PageCandidate = Undefined) # (RestCandidate = Undefined)) =>
        probe.result = IF PageCandidate = Undefined THEN RestCandidate ELSE PageCandidate

\* positions of the matching orders whose pricePerItem equals that of o
ProbedTies(o) ==
    {k \in ProbedMatching : ProbedPricePerItem(ProbedOrders[k]) = ProbedPricePerItem(o)}

FirstOf(S) == CHOOSE k \in S : \A j \in S : k <= j

\* C15: among the matching orders of equal pricePerItem the aggregator
\* selects the one seen first in feed order (earlier page, then earlier
\* position in the page); the selection is a function of the feed, so a
\* second run over the unchanged feed selects the same order.
C15_FirstSeenWins ==
    (probe.fn \in Aggregators /\ ProbedMatching # {}) =>
        /\ IsOrder(probe.result)
        /\ ProbedTies(probe.result) # {}
        /\ probe.result = ProbedOrders[FirstOf(ProbedTies(probe.result))]
        /\ probe.result = ProbedAggregator(probe.pages)

QueryPaths == Aggregators \cup {"getSingleBestListing", "getSingleBestOffer"}

\* C16: no query path, neither a full-pagination aggregator nor the
\* price-sorted single-token query of getSingleBestListing and
\* getSingleBestOffer, returns an order whose price value is zero.
C16_ZeroPriceNeverBest ==
    (probe.fn \in QueryPaths /\ IsOrder(probe.result)) => probe.result.value # 0

---------------------------------------------------------------------------
(* Properties of the retry wrappers *)

\* section 4.1: an error is retryable if its message or its code contains
\* one of the patterns, compared without regard to case
Retryable(error, patterns) ==
    /\ error.kind = "error"
    /\ error.isObject
    /\ \E k \in 1..Len(patterns) :
          \/ /\ error.message.type = "string"
             /\ includes(upperWords(error.message.text), toUpperCase(patterns[k]))
          \/ /\ error.code.type = "string"
             /\ includes(upperWords(error.code.text), toUpperCase(patterns[k]))

\* the call of withRetry in progress has invoked fn at most maxRetries + 1 times
WithRetryInvocationsBounded ==
    retry.wrapper = "withRetry" => retry.invocations <= retry.maxRetries + 1

\* the waits of the call so far are min(baseDelayMs * 2^k, maxDelayMs) for
\* k = 0, 1, ... counted from the start of this call
WithRetryBackoffFromZero ==
    retry.wrapper = "withRetry" =>
        /\ Len(retry.delays) = retry.attempt
        /\ \A k \in 1..Len(retry.delays) :
              retry.delays[k] = Min(retry.baseDelayMs * 2 ^ (k - 1), retry.maxDelayMs)

\* the failure fn() just ended with is retryable and retries are left
RetryableFailureWithRetriesLeft ==
    /\ retry.wrapper = "withRetry"
    /\ retry.invocations > 0
    /\ Retryable(retry.last, retry.retryableErrors)
    /\ retry.invocations - 1 < retry.maxRetries

\* C17: a call of withRetry invokes fn at most maxRetries + 1 times; after
\* the k-th retryable failure (k = 0, 1, ..., k < maxRetries) it waits
\* min(baseDelayMs * 2^k, maxDelayMs) and invokes fn again; the attempt
\* counter starts at 0 on every call.
C17_WithRetryBackoff ==
    /\ WithRetryInvocationsBounded
    /\ WithRetryBackoffFromZero
    /\ RetryableFailureWithRetriesLeft =>
          /\ retry.status = "running"
          /\ Len(retry.delays) = retry.invocations

\* fn() just ended with an error object that carries a retryAfter field, and
\* retries are left
RateLimitedWithRetriesLeft ==
    /\ retry.wrapper = "withRateLimitRetry"
    /\ retry.invocations > 0
    /\ retry.last.kind = "error"
    /\ retry.last.isObject
    /\ retry.last.retryAfter.type # "missing"
    /\ retry.invocations - 1 < retry.maxRetries

\* the wait that followed the last invocation
LastDelay == retry.delays[Len(retry.delays)]

\* C18 (as stated): every error that carries a retryAfter field is retried,
\* whatever its message, while retries are left, after a wait of
\* min(baseDelayMs * 2^attempt * retryAfter, maxDelayMs), for every value of
\* retryAfter and every attempt.
C18_RateLimitDelayAnyRetryAfter ==
    RateLimitedWithRetriesLeft =>
        /\ retry.status = "running"
        /\ Len(retry.delays) = retry.invocations
        /\ IF retry.last.retryAfter.type = "number"
           THEN LastDelay = Min(retry.baseDelayMs * 2 ^ (retry.invocations - 1)
                                    * retry.last.retryAfter.n,
                                retry.maxDelayMs)
           ELSE FALSE

\* C18 (amended): every error that carries a retryAfter field is retried,
\* whatever its message, while retries are left, after a wait of
\* min(baseDelayMs * 2^attempt * r, maxDelayMs), r being the number in
\* retryAfter, or 1 when that is 0 or not a number.
C18_RateLimitDelay ==
    RateLimitedWithRetriesLeft =>
        /\ retry.status = "running"
        /\ Len(retry.delays) = retry.invocations
        /\ LET r == IF retry.last.retryAfter.type = "number" /\ retry.last.retryAfter.n # 0
                    THEN retry.last.retryAfter.n ELSE 1
           IN  LastDelay = Min(retry.baseDelayMs * 2 ^ (retry.invocations - 1) * r,
                               retry.maxDelayMs)

C18_Witness ==
    /\ RateLimitedWithRetriesLeft
    /\ retry.invocations = 3
    /\ retry.last.retryAfter = Num(0)
    /\ retry.last.message.type = "missing"
    /\ LastDelay = 4000
    /\ retry.delays[1] = 2000

\* the call has ended with a rejection
RetryRejected == retry.status = "rejected" /\ retry.last.kind = "error"

\* section 4.1 for the wrapper of the call: is the last failure retryable
LastRetryable ==
    IF retry.wrapper = "withRetry" THEN Retryable(retry.last, retry.retryableErrors)
    ELSE retry.last.isObject /\ retry.last.retryAfter.type # "missing"

\* C19: with both wrappers, when fn fails with a non-retryable error, or with
\* a retryable error after maxRetries retries, the call rejects with that
\* same error value and fn is not invoked again; a non-retryable first
\* failure gives exactly one invocation and no wait.
C19_RejectsWithSameError ==
    /\ (retry.invocations > 0 /\ retry.last.kind = "error"
        /\ (~LastRetryable \/ retry.invocations - 1 >= retry.maxRetries)) =>
           /\ retry.status = "rejected"
           /\ retry.settled = retry.last
    /\ (RetryRejected /\ retry.invocations = 1 /\ ~LastRetryable) =>
           /\ retry.delays = <<>>
           /\ retry.settled = retry.last

---------------------------------------------------------------------------
(* Properties of the redundant-offer selection *)

\* positions in the feed of the owner's live offers in the scope of the target
OwnedInScope ==
    {k \in 1..Len(ProbedOrders) :
        /\ ProbedOrders[k].value # 0
        /\ OwnedByOwner(ProbedOrders[k])
        /\ InScopeOf(probe, ProbedOrders[k])}

Occurrences(s, x) == Cardinality({i \in 1..Len(s) : s[i] = x})

\* the selection is the owner's offers in scope, all but the one at position k
SelectsAllBut(k) ==
    LET others == OwnedInScope \ {k}
        selected == probe.result.offers
    IN  /\ Len(selected) = Cardinality(others)
        /\ \A i \in 1..Len(selected) :
              Occurrences(selected, selected[i])
                  = Cardinality({j \in others : ProbedOrders[j] = selected[i]})

\* C20: for a target whose scope holds n >= 2 live offers of the owner,
\* exactly n - 1 of them are selected for cancellation and one of maximal
\* pricePerItem is kept; with n <= 1 nothing is selected.
C20_AllButTheHighest ==
    probe.fn = "getOffersToCancelForCollection" =>
        /\ probe.result.kind = "offers"
        /\ IF Cardinality(OwnedInScope) <= 1 THEN probe.result.offers = <<>>
           ELSE \E k \in OwnedInScope :
                   /\ \A j \in OwnedInScope :
                         getOfferPricePerItem(ProbedOrders[k])
                             >= getOfferPricePerItem(ProbedOrders[j])
                   /\ SelectsAllBut(k)

\* what getOffersToCancelForCollection gathers for the target of the call
\* before it sorts (part_004 27-45)
GatheredForTarget ==
    IF probe.tokenId # NoToken THEN getAllOffers(probe.pages, probe.tokenId, Owner)
    ELSE IF probe.trait # <<>>
    THEN getAllTraitOffers(probe.pages, probe.trait[1], probe.trait[2], Owner)
    ELSE getAllCollectionOffers(probe.pages, Owner)

OwnedLiveInScope(o) == o.value # 0 /\ OwnedByOwner(o) /\ InScopeOf(probe, o)

\* C21: the offers gathered for a target are exactly the owner's live offers
\* in the target's own scope (its token, its trait, or collection-wide), and
\* no offer of the owner that belongs to another scope of the collection is
\* selected for cancellation on behalf of the target.
C21_GatheredInOwnScope ==
    probe.fn = "getOffersToCancelForCollection" =>
        /\ GatheredForTarget.kind = "offers"
        /\ GatheredForTarget.offers = SelectSeq(ProbedOrders, OwnedLiveInScope)
        /\ \A i \in 1..Len(probe.result.offers) : InScopeOf(probe, probe.result.offers[i])

---------------------------------------------------------------------------
(* Properties of the cancellation pass *)

CancelCalls == SelectSeq(sdkCalls, LAMBDA call : call.cap \in CancellationCaps)

\* the order hashes a cancel call covers
HashesOf(call) ==
    IF call.cap = "cancelOrders" THEN call.orderHashes ELSE <<call.orderHash>>

\* the order hashes of the offers selected for cancellation, in order
SelectedHashes ==
    LET withHash == SelectSeq(offersToCancel, LAMBDA o : o.order_hash # "")
    IN  [k \in 1..Len(withHash) |-> withHash[k].order_hash]

\* the stale-offers loop of the running program has dealt with a target
StaleOffersPassed == engine = "cancelOldOffers" /\ pc = "done" /\ ~dryRun

\* C22: in a pass of the stale-offers loop the redundant offers of a chain
\* are cancelled by at most one cancel call, which covers the order hashes
\* of all of them.
C22_OneCancelCallPerChain ==
    StaleOffersPassed =>
        /\ Len(CancelCalls) <= 1
        /\ Len(CancelCalls) = 1 => HashesOf(CancelCalls[1]) = SelectedHashes


\* the order hashes submitted by a sequence of cancel calls, in order
RECURSIVE SubmittedBy(_)
SubmittedBy(calls) ==
    IF calls = <<>> THEN <<>> ELSE HashesOf(Head(calls)) \o SubmittedBy(Tail(calls))

IsSuffix(s, t) == Len(s) <= Len(t) /\ SubSeq(t, Len(t) - Len(s) + 1, Len(t)) = s

\* a batch of cancelRedundantOffers has been dealt with
BatchPassed ==
    engine = "cancelRedundantOffers" /\ pc \in {"cancel_chain", "done"} /\ ~dryRun

\* C23: an offer selected for cancellation that has no order hash is passed
\* over: the hashes submitted in the pass are those of all the selected
\* offers that have one, and nothing is raised because of the missing hash.
C23_MissingHashSkipped ==
    /\ StaleOffersPassed /\ branch = "cancel" =>
           /\ SubmittedBy(CancelCalls) = SelectedHashes
           /\ raised = ""
    /\ BatchPassed => IsSuffix(SelectedHashes, SubmittedBy(CancelCalls))

\* an offer without order hash was selected ahead of one that has a hash
MissingHashAhead ==
    \E j, k \in 1..Len(offersToCancel) :
        /\ j < k
        /\ offersToCancel[j].order_hash = ""
        /\ offersToCancel[k].order_hash # ""

C23_Witness ==
    /\ StaleOffersPassed
    /\ MissingHashAhead
    /\ Len(CancelCalls) = 1

---------------------------------------------------------------------------
(* Start-up: the configuration file and its validation *)

\* ethers parseEther, on amounts the model writes in ten-thousandths of an
\* ETH: the smallest units of the amount
parseEther(amountETH) == amountETH * UnitsPerIncrement

\* types.ts 95-127: the chains initializeClients returns a provider for
Providers == {1, 360}

\* types.ts 1-28: a listing and an offer of the file's JSON, before the
\* loader adds defaultPrice, minPrice and maxPrice
RawListing(chain, tokenId, defaultPriceETH, minPriceETH, compare) ==
    [chainId |-> chain, tokenId |-> tokenId, defaultPriceETH |-> defaultPriceETH,
     minPriceETH |-> minPriceETH, shouldCompareToRest |-> compare]

RawOffer(chain, tokenId, trait, defaultPriceETH, maxPriceETH, quantity, compare) ==
    [chainId |-> chain, tokenId |-> tokenId, trait |-> trait,
     defaultPriceETH |-> defaultPriceETH, maxPriceETH |-> maxPriceETH,
     quantity |-> quantity, shouldCompareToRest |-> compare]

Loaded(target) == [kind |-> "target", target |-> target]

\* initializeCollections.ts 27-63: one listing of the file, without the
\* check of minPrice against defaultPrice
loadListingAnyMinPrice(c, providers) ==
    IF c.chainId \notin providers THEN Thrown("No RPC provider configured for chain")
    ELSE LET defaultPrice == parseEther(c.defaultPriceETH)
             minPrice == parseEther(c.minPriceETH)
         IN  IF defaultPrice <= 0 THEN Thrown("Invalid default price for collection")
             ELSE IF minPrice <= 0 THEN Thrown("Invalid min price for collection")
             ELSE Loaded([chainId |-> c.chainId, tokenId |-> c.tokenId,
                          defaultPriceETH |-> c.defaultPriceETH,
                          minPriceETH |-> c.minPriceETH,
                          defaultPrice |-> defaultPrice, minPrice |-> minPrice,
                          shouldCompareToRest |->
                              orDefault(c.shouldCompareToRest, FALSE)])

\* initializeCollections.ts 27-63: one listing of the file
loadListing(c, providers) ==
    IF c.chainId \notin providers THEN Thrown("No RPC provider configured for chain")
    ELSE LET defaultPrice == parseEther(c.defaultPriceETH)
             minPrice == parseEther(c.minPriceETH)
         IN  IF defaultPrice <= 0 THEN Thrown("Invalid default price for collection")
             ELSE IF minPrice <= 0 THEN Thrown("Invalid min price for collection")
             ELSE IF defaultPrice < minPrice
             THEN Thrown("Min price must be less than or equal to default price")
             ELSE Loaded([chainId |-> c.chainId, tokenId |-> c.tokenId,
                          defaultPriceETH |-> c.defaultPriceETH,
                          minPriceETH |-> c.minPriceETH,
                          defaultPrice |-> defaultPrice, minPrice |-> minPrice,
                          shouldCompareToRest |->
                              orDefault(c.shouldCompareToRest, FALSE)])

\* initializeCollections.ts 17-69
RECURSIVE initializeCollections(_, _)
initializeCollections(listings, providers) ==
    IF listings = <<>> THEN [kind |-> "targets", targets |-> <<>>]
    ELSE LET first == loadListing(Head(listings), providers)
         IN  IF first.kind = "error" THEN first
             ELSE LET rest == initializeCollections(Tail(listings), providers)
                  IN  IF rest.kind = "error" THEN rest
                      ELSE [kind |-> "targets",
                            targets |-> <<first.target>> \o rest.targets]

\* initializeCollections.ts 119-157: prices and quantity of one offer target
loadOfferPrices(c, offerType) ==
    LET defaultPrice == parseEther(c.defaultPriceETH)
        maxPrice == parseEther(c.maxPriceETH)
        quantity == IF offerType \in {"collection", "trait"}
                    THEN orDefault(c.quantity, 1) ELSE 1
    IN  IF defaultPrice <= 0 THEN Thrown("Invalid default price for offer collection")
        ELSE IF maxPrice <= 0 THEN Thrown("Invalid max price for offer collection")
        ELSE IF defaultPrice > maxPrice
        THEN Thrown("Default price must be less than or equal to max price")
        ELSE IF quantity < 1 THEN Thrown("Quantity must be at least 1")
        ELSE Loaded([chainId |-> c.chainId, tokenId |-> c.tokenId, trait |-> c.trait,
                     defaultPriceETH |-> c.defaultPriceETH,
                     maxPriceETH |-> c.maxPriceETH,
                     defaultPrice |-> defaultPrice, maxPrice |-> maxPrice,
                     quantity |-> quantity,
                     shouldCompareToRest |-> orDefault(c.shouldCompareToRest, FALSE)])

\* initializeCollections.ts 87-117 without the check of tokenId against trait
loadOfferAnyScope(c, providers) ==
    IF c.chainId \notin providers THEN Thrown("No RPC provider configured for chain")
    ELSE LET offerType == inferOfferType(c)
         IN  IF offerType = "trait" /\ (c.trait[1] = "" \/ c.trait[2] = "")
             THEN Thrown("trait.traitType and trait.value are required")
             ELSE loadOfferPrices(c, offerType)

\* initializeCollections.ts 87-171: one offer of the file
loadOffer(c, providers) ==
    IF c.chainId \notin providers THEN Thrown("No RPC provider configured for chain")
    ELSE IF c.tokenId # NoToken /\ c.trait # <<>>
    THEN Thrown("Cannot specify both tokenId and trait")
    ELSE LET offerType == inferOfferType(c)
         IN  IF offerType = "trait" /\ (c.trait[1] = "" \/ c.trait[2] = "")
             THEN Thrown("trait.traitType and trait.value are required")
             ELSE loadOfferPrices(c, offerType)

\* initializeCollections.ts 77-177
RECURSIVE initializeOfferCollections(_, _)
initializeOfferCollections(offers, providers) ==
    IF offers = <<>> THEN [kind |-> "targets", targets |-> <<>>]
    ELSE LET first == loadOffer(Head(offers), providers)
         IN  IF first.kind = "error" THEN first
             ELSE LET rest == initializeOfferCollections(Tail(offers), providers)
                  IN  IF rest.kind = "error" THEN rest
                      ELSE [kind |-> "targets",
                            targets |-> <<first.target>> \o rest.targets]


\* the configuration files main() is started on
ValidListings ==
    <<RawListing(1, "1", 2, 1, UndefinedOption), RawListing(360, "2", 3, 3, Option(TRUE))>>

ValidOffers ==
    <<RawOffer(1, NoToken, <<>>, 1, 2, UndefinedOption, UndefinedOption),
      RawOffer(360, NoToken, <<"bg", "red">>, 2, 2, Option(2), Option(FALSE))>>

InvalidListings ==
    {RawListing(999, "2", 3, 3, UndefinedOption),
     RawListing(1, "2", 0, 1, UndefinedOption),
     RawListing(1, "2", 0 - 1, 0 - 1, UndefinedOption),
     RawListing(1, "2", 3, 0, UndefinedOption),
     RawListing(1, "2", 2, 3, UndefinedOption)}

InvalidOffers ==
    {RawOffer(999, NoToken, <<>>, 1, 2, UndefinedOption, UndefinedOption),
     RawOffer(1, "1", <<"bg", "red">>, 1, 2, UndefinedOption, UndefinedOption),
     RawOffer(1, NoToken, <<"", "red">>, 1, 2, UndefinedOption, UndefinedOption),
     RawOffer(1, NoToken, <<>>, 0, 2, UndefinedOption, UndefinedOption),
     RawOffer(1, "1", <<>>, 1, 0, UndefinedOption, UndefinedOption),
     RawOffer(1, NoToken, <<>>, 3, 2, UndefinedOption, UndefinedOption),
     RawOffer(1, NoToken, <<>>, 1, 2, Option(0), UndefinedOption),
     RawOffer(1, NoToken, <<"bg", "red">>, 1, 2, Option(0), UndefinedOption)}

File(listings, offers) == [listings |-> listings, offers |-> offers]

ConfigFiles ==
    {File(ValidListings, ValidOffers),
     File(<<RawListing(1, "1", 1, 1, Option(FALSE))>>,
          <<RawOffer(1, "1", <<>>, 1, 3, Option(0), UndefinedOption)>>)}
    \cup {File(<<ValidListings[1], c>>, ValidOffers) : c \in InvalidListings}
    \cup {File(ValidListings, <<ValidOffers[1], c>>) : c \in InvalidOffers}
    \cup {File(ValidListings, <<c, ValidOffers[2]>>) : c \in InvalidOffers}

---------------------------------------------------------------------------
(* main() and its three polling loops *)

\* cycles a polling loop is followed for
MaxCycles == 2

Loops == {"monitorListings", "monitorOffers", "cancelStaleOffers"}

\* index.ts 477-481: the targets a loop is started on
targetsOf(l) == IF l = "monitorListings" THEN collections ELSE offerCollections

\* a loop that was not started, and a loop at the head of its first cycle
NotStarted ==
    [at |-> "none", pos |-> 0, cycle |-> 0, running |-> {}, seen |-> <<>>,
     caught |-> {}, survived |-> FALSE]

FirstCycle ==
    [at |-> "for", pos |-> 1, cycle |-> 1, running |-> {}, seen |-> <<>>,
     caught |-> {}, survived |-> FALSE]

\* a loop body that starts the evaluations of all the targets left at once
startedAll(pos, n) == pos..n

\* index.ts 388-401, 415-430, 444-457: `for (const c of ...) { try { await
\* ...` starts the evaluation of one target
started(pos, n) == {pos}

\* a loop whose per-target exception is not caught
afterEvaluationUncaught(lp, i, outcome) ==
    IF outcome = "threw"
    THEN [lp EXCEPT !.at = "terminated", !.running = {}]
    ELSE [lp EXCEPT !.at = "for", !.running = {}, !.pos = i + 1,
                    !.seen = Append(@, i)]

\* index.ts 389-400, 416-429, 445-456: the evaluation of target i returned
\* or threw; the catch logs and the for goes on
afterEvaluation(lp, i, outcome) ==
    [lp EXCEPT !.at = IF lp.running = {i} THEN "for" ELSE "evaluating",
               !.running = @ \ {i},
               !.pos = i + 1,
               !.seen = Append(@, i),
               !.caught = IF outcome = "threw" THEN @ \cup {i} ELSE @]

engineVarsButMarket == <<now, pc, engine, cur, bestOrder, ourOrder, branch, raised, request,
                         sdkCalls, cancelQueue, offersToCancel, retry, probe>>
engineVars == <<engineVarsButMarket, market>>

\* index.ts 463-481: main() up to Promise.all
Startup ==
    /\ main.phase = "startup"
    /\ LET listings == initializeCollections(main.file.listings, Providers)
           offers == IF listings.kind = "error" THEN listings
                     ELSE initializeOfferCollections(main.file.offers, Providers)
       IN  /\ collections' = IF listings.kind = "error" THEN <<>> ELSE listings.targets
           /\ offerCollections' = IF offers.kind = "error" THEN <<>> ELSE offers.targets
           /\ main' = IF offers.kind = "error"
                      THEN [main EXCEPT !.phase = "failed", !.error = offers.message]
                      ELSE [main EXCEPT !.phase = "running",
                                        !.loops = [l \in Loops |-> FirstCycle]]
    /\ UNCHANGED <<dryRun, engineVars>>

\* index.ts 388-390, 415-417, 444-446: a loop starts on its next target
BeginEvaluation(l) ==
    /\ main.phase = "running"
    /\ main.loops[l].at = "for"
    /\ main.loops[l].pos <= Len(targetsOf(l))
    /\ main' = [main EXCEPT !.loops[l].at = "evaluating",
                            !.loops[l].running =
                                started(main.loops[l].pos, Len(targetsOf(l)))]
    /\ UNCHANGED <<config, engineVars>>

\* index.ts 390-400, 417-429, 446-456: the evaluation returns or throws
EndEvaluation(l) ==
    /\ main.phase = "running"
    /\ main.loops[l].at = "evaluating"
    /\ \E i \in main.loops[l].running, outcome \in {"returned", "threw"} :
        LET after == afterEvaluation(main.loops[l], i, outcome)
        IN  main' = [main EXCEPT !.loops[l] = after,
                                 !.phase = IF after.at = "terminated"
                                           THEN "failed" ELSE @,
                                 !.error = IF after.at = "terminated"
                                           THEN "per-target exception" ELSE @]
    /\ UNCHANGED <<config, engineVars>>

\* index.ts 402-403, 431-432, 458-459: all targets done, the loop sleeps
Sleep(l) ==
    /\ main.phase = "running"
    /\ main.loops[l].at = "for"
    /\ main.loops[l].pos > Len(targetsOf(l))
    /\ main' = [main EXCEPT !.loops[l].at = "sleeping"]
    /\ UNCHANGED <<config, engineVars>>

\* index.ts 387, 414, 443: `while (true)`, the next cycle
Wake(l) ==
    /\ main.phase = "running"
    /\ main.loops[l].at = "sleeping"
    /\ main.loops[l].cycle < MaxCycles
    /\ main' = [main EXCEPT !.loops[l] =
                    [at |-> "for", pos |-> 1, cycle |-> @.cycle + 1, running |-> {},
                     seen |-> <<>>, caught |-> {},
                     survived |-> @.survived \/ @.caught # {}]]
    /\ UNCHANGED <<config, engineVars>>

\* index.ts 402-403, 431-432, 458-459: a statement of the loop body outside
\* the per-target try throws (the logger, or the sleep that is awaited): the
\* promise of the loop rejects, and with it Promise.all and main()
LoopFails(l) ==
    /\ main.phase = "running"
    /\ main.loops[l].at = "sleeping"
    /\ main' = [main EXCEPT !.loops[l].at = "terminated",
                            !.phase = "failed",
                            !.error = "loop failure"]
    /\ UNCHANGED <<config, engineVars>>

\* index.ts 484-487: main().catch logs and calls process.exit(1)
ProcessExit ==
    /\ main.phase = "failed"
    /\ main' = [main EXCEPT !.phase = "exited"]
    /\ UNCHANGED <<config, engineVars>>

LoopInit ==
    /\ dryRun \in BOOLEAN
    /\ collections = <<>>
    /\ offerCollections = <<>>
    /\ now = StartTime
    /\ pc = "idle"
    /\ engine = "none"
    /\ cur = 0
    /\ bestOrder = Undefined
    /\ ourOrder = Undefined
    /\ branch = "none"
    /\ raised = ""
    /\ request = NoRequest
    /\ sdkCalls = <<>>
    /\ cancelQueue = <<>>
    /\ offersToCancel = <<>>
    /\ retry = NoRetry
    /\ probe = NoProbe
    /\ main \in {[phase |-> "startup", file |-> f, error |-> "",
                  loops |-> [l \in Loops |-> NotStarted]] : f \in ConfigFiles}
    /\ market = NoMarket

LoopNext ==
    \/ Startup
    \/ \E l \in Loops : BeginEvaluation(l)
    \/ \E l \in Loops : EndEvaluation(l)
    \/ \E l \in Loops : Sleep(l)
    \/ \E l \in Loops : Wake(l)
    \/ \E l \in Loops : LoopFails(l)
    \/ ProcessExit

LoopSpec == LoopInit /\ [][LoopNext]_vars

---------------------------------------------------------------------------
(* Properties of the polling loops *)

AllTargets(l) == [k \in 1..Len(targetsOf(l)) |-> k]

\* C24: an exception of one target's evaluation is caught in the loop: the
\* loop leaves its for only after every target of the cycle was evaluated,
\* whatever was caught on the way, it goes on to its next cycle, and what
\* ends a loop is never the exception of a target.
C24_PerTargetExceptionCaught ==
    main.phase # "none" =>
        \A l \in Loops :
            LET lp == main.loops[l]
            IN  /\ lp.at \in {"sleeping", "terminated"} => lp.seen = AllTargets(l)
                /\ lp.at = "for" => lp.seen = [k \in 1..(lp.pos - 1) |-> k]
                /\ lp.caught \subseteq {lp.seen[k] : k \in 1..Len(lp.seen)}
                /\ lp.survived => lp.cycle > 1
                /\ main.error # "per-target exception"

\* a loop caught an exception in its first cycle and, in its second cycle,
\* the exception of its first target, and evaluated its other target
C24_Witness ==
    /\ main.phase = "running"
    /\ \E l \in Loops :
        /\ main.loops[l].survived
        /\ main.loops[l].at = "sleeping"
        /\ main.loops[l].caught = {1}
        /\ Len(main.loops[l].seen) = 2


\* C25: a failure that ends one polling loop leaves the other two running:
\* the process is not ended by it.
C25_OtherLoopsContinue ==
    main.phase # "none" =>
        \A l \in Loops : main.loops[l].at = "terminated" => main.phase # "exited"


\* the evaluations in progress: loop and index of the target
InProgress == UNION {{<<l, i>> : i \in main.loops[l].running} : l \in Loops}

PricingLoops == {"monitorListings", "monitorOffers"}

\* C26, as stated: no two price decisions for different targets are in
\* progress at the same time.
C26_NoTwoDecisionsAtOnce ==
    main.phase # "none" =>
        Cardinality({p \in InProgress : p[1] \in PricingLoops}) <= 1

\* C26: within a loop the targets are evaluated one after the other: at most
\* one evaluation of the loop is in progress, it is that of the next target
\* in order, and every target before it has been evaluated to its end.
C26_SequentialWithinLoop ==
    main.phase # "none" =>
        \A l \in Loops :
            LET lp == main.loops[l]
            IN  /\ Cardinality(lp.running) <= 1
                /\ lp.at = "evaluating" <=> lp.running # {}
                /\ lp.running \subseteq {lp.pos}
                /\ lp.running # {} => lp.seen = [k \in 1..(lp.pos - 1) |-> k]

\* the second target of a loop is under evaluation after the first one threw
C26_Witness ==
    /\ main.phase = "running"
    /\ \E l \in PricingLoops :
        /\ main.loops[l].running = {2}
        /\ main.loops[l].caught = {1}

---------------------------------------------------------------------------
(* Properties of the start-up *)

\* what the validation rejects, read off the file
InvalidListing(c) ==
    \/ c.chainId \notin Providers
    \/ c.defaultPriceETH <= 0
    \/ c.minPriceETH <= 0
    \/ c.minPriceETH > c.defaultPriceETH

InvalidOffer(c) ==
    \/ c.chainId \notin Providers
    \/ c.defaultPriceETH <= 0
    \/ c.maxPriceETH <= 0
    \/ c.defaultPriceETH > c.maxPriceETH
    \/ c.tokenId # NoToken /\ c.trait # <<>>
    \/ c.tokenId = NoToken /\ c.quantity.defined /\ c.quantity.value < 1

InvalidFile(f) ==
    \/ \E k \in 1..Len(f.listings) : InvalidListing(f.listings[k])
    \/ \E k \in 1..Len(f.offers) : InvalidOffer(f.offers[k])

\* C27: on a file with a target the validation rejects main() never gets to
\* its loops: no loop is started, no target is evaluated and nothing is
\* asked of the marketplace.
C27_InvalidConfigAborts ==
    main.phase # "none" /\ InvalidFile(main.file) =>
        /\ main.phase \in {"startup", "failed", "exited"}
        /\ \A l \in Loops : main.loops[l] = NotStarted
        /\ offerCollections = <<>>
        /\ sdkCalls = <<>>

\* the process has ended on a file whose second offer is for less than one
\* item
C27_Witness ==
    /\ main.phase = "exited"
    /\ main.error = "Quantity must be at least 1"
    /\ InvalidFile(main.file)


ListingTargetValid(c) == 0 < c.minPrice /\ c.minPrice <= c.defaultPrice

OfferTargetValid(c) ==
    /\ 0 < c.defaultPrice
    /\ c.defaultPrice <= c.maxPrice
    /\ c.quantity >= 1
    /\ ~(c.tokenId # NoToken /\ c.trait # <<>>)

\* C28: the listing targets and the offer targets main() got from the file
\* satisfy their invariants, and in every cycle of the loops they are what
\* was loaded.
C28_TargetsValidAndKept ==
    main.phase # "none" /\ (\E l \in Loops : main.loops[l] # NotStarted) =>
        /\ \A k \in 1..Len(collections) : ListingTargetValid(collections[k])
        /\ \A k \in 1..Len(offerCollections) : OfferTargetValid(offerCollections[k])
        /\ collections = initializeCollections(main.file.listings, Providers).targets
        /\ offerCollections =
               initializeOfferCollections(main.file.offers, Providers).targets
        /\ Len(collections) = Len(main.file.listings)
        /\ Len(offerCollections) = Len(main.file.offers)

\* a loop is in its second cycle over a single-token target whose quantity in
\* the file was 0
C28_Witness ==
    /\ main.phase = "running"
    /\ main.loops["monitorOffers"].cycle = MaxCycles
    /\ main.file.offers[1].quantity = Option(0)
    /\ offerCollections[1].quantity = 1

---------------------------------------------------------------------------
(* The 3-decimal fallback of the offer creation *)

ThreeDecimalsAllowed == <<"3", " ", "decimal", "s", " ", "allowed">>
ThreeDecimal == <<"3", " ", "decimal">>

\* offers/utils.ts 113-116; String(error) of an Error without message is
\* "Error"
isThreeDecimalsError(error) ==
    LET errorMessage == IF error.message # <<>> THEN error.message ELSE <<"Error">>
    IN  includesText(errorMessage, ThreeDecimalsAllowed)
        \/ includesText(errorMessage, ThreeDecimal)

\* what createOffer(price) of offers/utils.ts 219-236 comes back with: the
\* order created at that price, no order, or the marketplace's rejection
Created(price) == [kind |-> "order", price |-> price]
NoOrder == [kind |-> "null"]

respond(response, price) == IF response.kind = "ok" THEN Created(price) ELSE response

\* a creation that is not tried again
withoutThreeDecimalsRetry(price, responses) ==
    LET first == respond(responses[1], price)
    IN  IF first.kind = "error" THEN [calls |-> <<price>>, outcome |-> first]
        ELSE [calls |-> <<price>>,
              outcome |-> [kind |-> "returned", result |-> first, actualPrice |-> price]]

\* offers/utils.ts 126-147.  responses: what the marketplace answers to the
\* first and to the second call of createOffer
withThreeDecimalsRetry(price, responses) ==
    LET first == respond(responses[1], price)
    IN  IF first.kind # "error"
        THEN [calls |-> <<price>>,
              outcome |-> [kind |-> "returned", result |-> first, actualPrice |-> price]]
        ELSE IF isThreeDecimalsError(first)
        THEN LET price3Decimals == roundUpToThreeDecimals(price)
                 second == respond(responses[2], price3Decimals)
             IN  IF second.kind = "error"
                 THEN [calls |-> <<price, price3Decimals>>, outcome |-> second]
                 ELSE [calls |-> <<price, price3Decimals>>,
                       outcome |-> [kind |-> "returned", result |-> second,
                                    actualPrice |-> price3Decimals]]
        ELSE [calls |-> <<price>>, outcome |-> first]

\* prices the price functions are called on: up to MaxProbeIncrements 0.001
\* increments
MaxProbeIncrements == 3
ProbePrices == 0..(MaxProbeIncrements * OPENSEA_PRICE_INCREMENT_3_DECIMALS)

MarketMessages ==
    {ThreeDecimalsAllowed,
     <<"Only", " ", "3", " ", "decimal", " ", "places">>,
     <<"1", "3", " ", "decimal", "s", " ", "required">>,
     <<"4", " ", "decimal", "s", " ", "allowed">>,
     <<"rate", " ", "limit">>,
     <<>>}

MarketResponses == {[kind |-> "ok"], NoOrder} \cup {Thrown(m) : m \in MarketMessages}

\* a call of roundUpToThreeDecimals
CallRoundUpToThreeDecimals ==
    \E price \in ProbePrices \cup {0 - 1} :
        probe' = [fn |-> "roundUpToThreeDecimals", price |-> price,
                  result |-> roundUpToThreeDecimals(price)]

\* a call of withThreeDecimalsRetry
CallWithThreeDecimalsRetry ==
    \E price \in ProbePrices \ {0}, first \in MarketResponses, second \in MarketResponses :
        probe' = [fn |-> "withThreeDecimalsRetry", price |-> price,
                  responses |-> <<first, second>>,
                  result |-> withThreeDecimalsRetry(price, <<first, second>>)]

PriceNext ==
    /\ probe = NoProbe
    /\ \/ CallRoundUpToThreeDecimals
       \/ CallWithThreeDecimalsRetry
    /\ UNCHANGED <<config, main, market, retry, now, pc, engine, cur, bestOrder, ourOrder, branch,
                   raised, request, sdkCalls, cancelQueue, offersToCancel>>

PriceSpec == Init /\ [][PriceNext]_vars

---------------------------------------------------------------------------
(* Properties of the 3-decimal fallback *)

RetryProbed == probe.fn = "withThreeDecimalsRetry"

\* what is said of a call whose first attempt is rejected precisely when
\* Recognised holds of the rejection: the first attempt is at the computed
\* price; a recognised rejection is followed by exactly one more attempt, at
\* the price rounded up, whose order or whose error is the outcome; any
\* other rejection is the outcome as it is
FallbackOn(Recognised(_)) ==
    LET first == probe.responses[1]
        second == probe.responses[2]
        rounded == roundUpToThreeDecimals(probe.price)
    IN  /\ Head(probe.result.calls) = probe.price
        /\ first.kind # "error" =>
               /\ probe.result.calls = <<probe.price>>
               /\ probe.result.outcome.actualPrice = probe.price
        /\ first.kind = "error" /\ Recognised(first) =>
               /\ probe.result.calls = <<probe.price, rounded>>
               /\ second.kind = "ok" =>
                      /\ probe.result.outcome.kind = "returned"
                      /\ probe.result.outcome.result = Created(rounded)
                      /\ probe.result.outcome.actualPrice = rounded
               /\ second.kind = "error" => probe.result.outcome = second
        /\ first.kind = "error" /\ ~Recognised(first) =>
               /\ probe.result.calls = <<probe.price>>
               /\ probe.result.outcome = first

SaysThreeDecimalsAllowed(error) == includesText(error.message, ThreeDecimalsAllowed)
SaysThreeDecimal(error) == includesText(error.message, ThreeDecimal)

\* C29, as stated: the fallback is taken on a '3 decimals allowed' error and
\* on no other error.
C29_FallbackOnThreeDecimalsAllowed == RetryProbed => FallbackOn(SaysThreeDecimalsAllowed)

\* C29: the fallback is taken on an error whose message contains '3 decimal',
\* as '3 decimals allowed' does, and on no other error.
C29_FallbackOnThreeDecimal == RetryProbed => FallbackOn(SaysThreeDecimal)

\* a price off the 0.001 increments was rejected with '3 decimals allowed'
\* and the order of the retry, at the next increment, came back
C29_Witness ==
    /\ RetryProbed
    /\ probe.responses = <<Thrown(ThreeDecimalsAllowed), [kind |-> "ok"]>>
    /\ probe.price % OPENSEA_PRICE_INCREMENT_3_DECIMALS # 0
    /\ probe.result.outcome.result = Created(roundUpToThreeDecimals(probe.price))
    /\ probe.result.outcome.result # Created(probe.price)

\* C30: for a price p > 0 roundUpToThreeDecimals returns the least multiple
\* r of the 0.001 increment with r >= p: p <= r < p + increment, and r = p
\* when p is a multiple.
C30_LeastMultipleNotBelow ==
    probe.fn = "roundUpToThreeDecimals" /\ probe.price > 0 =>
        LET p == probe.price
            r == probe.result
            inc == OPENSEA_PRICE_INCREMENT_3_DECIMALS
        IN  /\ r % inc = 0
            /\ p <= r
            /\ r < p + inc
            /\ p % inc = 0 => r = p
            /\ \A m \in p..(r - 1) : m % inc # 0

\* a price just above an increment went up to the next one
C30_Witness ==
    /\ probe.fn = "roundUpToThreeDecimals"
    /\ probe.price = OPENSEA_PRICE_INCREMENT_3_DECIMALS + 1
    /\ probe.result = 2 * OPENSEA_PRICE_INCREMENT_3_DECIMALS

---------------------------------------------------------------------------
(* The single-token query strategy *)

\* what getOrders rejects with ("": it answers)
OrdersErrors ==
    {"", SortingMsg, "400 Bad Request: " \o SortingMsg \o ".", "Sorting by price",
     "ETIMEDOUT", "Cannot read properties of undefined"}

\* a call of getSingleBestListing whatever getOrders does
CallSingleListingQuery ==
    \E pages \in ProbeFeedsOf(ProbeListingOrders), e \in OrdersErrors, isError \in BOOLEAN :
        LET api == [pages |-> pages, ordersErrorIsError |-> isError, ordersError |-> e]
            traced == getSingleBestListingTraced(api, "1")
        IN  probe' = [fn |-> "getSingleBestListing", side |-> "listing", api |-> api,
                      tokenId |-> "1", queries |-> traced.queries,
                      result |-> traced.result]

\* a call of getSingleBestOffer whatever getOrders does
CallSingleOfferQuery ==
    \E pages \in ProbeFeedsOf(ProbeOfferOrders), e \in OrdersErrors, isError \in BOOLEAN :
        LET api == [pages |-> pages, ordersErrorIsError |-> isError, ordersError |-> e]
            traced == getSingleBestOfferTraced(api, "1")
        IN  probe' = [fn |-> "getSingleBestOffer", side |-> "offer", api |-> api,
                      tokenId |-> "1", queries |-> traced.queries,
                      result |-> traced.result]

SingleQueryNext ==
    /\ probe = NoProbe
    /\ \/ CallSingleListingQuery
       \/ CallSingleOfferQuery
    /\ UNCHANGED <<config, main, market, retry, now, pc, engine, cur, bestOrder, ourOrder, branch,
                   raised, request, sdkCalls, cancelQueue, offersToCancel>>

SingleQuerySpec == Init /\ [][SingleQueryNext]_vars

\* the message of the rejection names the sorting restriction
SortingRejected == probe.api.ordersError # "" /\ includesText(probe.api.ordersError, SortingMsg)

\* the result of the aggregation over all pages, filtered by the token id
PaginationResult ==
    IF probe.side = "listing" THEN getBestListing(probe.api.pages, probe.tokenId, NoOfferer)
    ELSE getBestOffer(probe.api.pages, probe.tokenId, NoOfferer)

Paginated == Len(probe.queries) > 1

\* C31: the price-sorted single-token query is sent first; the pagination
\* follows only when that query was rejected with a message that contains
\* the sorting restriction, and then its result is returned; any other
\* rejection is passed on.
C31_SingleQueryFirst ==
    probe.fn \in {"getSingleBestListing", "getSingleBestOffer"} =>
        /\ Head(probe.queries) = "getOrders"
        /\ Len(probe.queries) <= 2
        /\ Paginated => SortingRejected /\ probe.result = PaginationResult
        /\ SortingRejected /\ probe.api.ordersErrorIsError => Paginated
        /\ probe.api.ordersError # "" /\ ~SortingRejected =>
               /\ ~Paginated
               /\ probe.result = Thrown(probe.api.ordersError)
        /\ probe.api.ordersError = "" => ~Paginated /\ probe.result.kind # "error"

\* the query was rejected with a longer message that contains the sorting
\* restriction, and the pagination found an order
C31_Witness ==
    /\ probe.fn \in {"getSingleBestListing", "getSingleBestOffer"}
    /\ probe.api.ordersError # SortingMsg
    /\ SortingRejected
    /\ probe.queries = <<"getOrders", IF probe.side = "listing" THEN "getAllListings" ELSE "getAllOffers">>
    /\ probe.result.kind \notin {"error", "undefined"}

---------------------------------------------------------------------------
(* Properties of the submitted offers *)

\* paymentTokens.ts 11-19, the table as it is written
WethTable ==
    [chainId \in {1, 10, 137, 8453, 42161, 7777777, 360} |->
        IF chainId = 360 THEN "0x4200000000000000000000000000000000000006"
        ELSE "0xC02aaA39b223FE8D0A0e5C4F27eAD9083C756Cc2"]

WethOfChain(chainId) == IF chainId \in DOMAIN WethTable THEN WethTable[chainId] ELSE WethTable[1]

OfferCreationCalls == SelectSeq(sdkCalls, LAMBDA call : call.cap \in CreationCaps)

\* C32: what the offer engine hands to a creation primitive, and what the
\* primitive sends, names the WETH address of the table for the chain of the
\* target, the chain-1 address for a chain the table lacks, and never the
\* zero address.
C32_WethPaymentToken ==
    (engine = "offer" /\ request # NoRequest) =>
        LET expected == WethOfChain(offerCollections[cur].chainId)
        IN  /\ expected # ZERO_ADDRESS
            /\ request.paymentTokenAddress = expected
            /\ \A k \in 1..Len(OfferCreationCalls) :
                   OfferCreationCalls[k].paymentTokenAddress = expected

\* an offer was sent for the target on chain 360 with the address of that
\* chain
C32_Witness ==
    /\ engine = "offer"
    /\ offerCollections[cur].chainId = 360
    /\ Len(OfferCreationCalls) > 0
    /\ OfferCreationCalls[1].paymentTokenAddress = WethTable[360]
    /\ WethTable[360] # WethTable[1]


----------------------------------------------------------------------------
(* The per-item price of an order: offers/utils.ts 71-78 for the offers,   *)
(* price value over sumOfferEndAmounts (listings/utils.ts 20-24) for the   *)
(* listings.  The orders drawn are well formed: the currency item carries *)
(* the whole price, which is positive, and the items stand for quantity   *)
(* tokens.                                                                 *)

MaxPerItemValue == 7
MaxPerItemQuantity == 3

WellFormedOfferShapes ==
    {OfferShape("single", "1", <<>>, 1, "WETH", "total", TRUE)}
    \cup {OfferShape("collection", NoToken, <<>>, q, "WETH", "total", TRUE) :
             q \in 1..MaxPerItemQuantity}
    \cup {OfferShape("trait", NoToken, <<"bg", "red">>, q, "WETH", "total", TRUE) :
             q \in 1..MaxPerItemQuantity}

CallGetOfferPricePerItem ==
    \E who \in Offerers, v \in 1..MaxPerItemValue, sh \in WellFormedOfferShapes :
        LET offer == OfferOrder(who, v, sh)
        IN  probe' = [fn |-> "getOfferPricePerItem", order |-> offer,
                      quantity |-> sh.quantity,
                      result |-> getOfferPricePerItem(offer)]

CallListingPricePerItem ==
    \E who \in Offerers, v \in 1..MaxPerItemValue, q \in 1..MaxPerItemQuantity :
        LET listing == ListingOrder(who, v, <<"1", q, "ETH">>)
        IN  probe' = [fn |-> "listingPricePerItem", order |-> listing,
                      quantity |-> q,
                      result |-> listingPricePerItem(listing)]

PerItemNext ==
    /\ probe = NoProbe
    /\ \/ CallGetOfferPricePerItem
       \/ CallListingPricePerItem
    /\ UNCHANGED <<config, main, market, retry, now, pc, engine, cur, bestOrder, ourOrder, branch,
                   raised, request, sdkCalls, cancelQueue, offersToCancel>>

PerItemSpec == Init /\ [][PerItemNext]_vars

PerItemProbed == probe.fn \in {"getOfferPricePerItem", "listingPricePerItem"}

\* C33: the per-item price used for comparison of a well-formed order with
\* quantity >= 1 is floor(priceTotal / quantity), a non-negative integer.
C33_PerItemIsFloor ==
    PerItemProbed =>
        /\ probe.result = probe.order.value \div probe.quantity
        /\ probe.result >= 0

\* the same for the listings and the collection- and trait-scope offers only
C33_PerItemIsFloorButSingle ==
    (PerItemProbed /\ (probe.fn = "listingPricePerItem" \/ getOfferType(probe.order) # "single")) =>
        /\ probe.result = probe.order.value \div probe.quantity
        /\ probe.result >= 0


----------------------------------------------------------------------------
(* Properties of the prices submitted against a competing order *)

UndercutBranch == ListingEvaluated /\ branch = "undercut"

\* C34: in the listing undercut branch the price submitted is strictly lower
\* than the competing per-item price, whether or not the clamp to defaultPrice
\* applies.
C34_UndercutStrictlyLower ==
    UndercutBranch =>
        LET p == bestOrder.value \div SumEndAmounts(bestOrder.offer)
        IN  /\ p >= collections[cur].minPrice
            /\ request.kind = "createListing"
            /\ request.price < p
            /\ \A k \in 1..Len(sdkCalls) :
                   sdkCalls[k].cap = "createListing" => sdkCalls[k].amount < p

\* an undercut that the clamp to defaultPrice decides
C34_Witness ==
    /\ UndercutBranch
    /\ ~dryRun
    /\ ((bestOrder.value \div SumEndAmounts(bestOrder.offer)) \div 1000) * 1000 - 1000
           > collections[cur].defaultPrice
    /\ sdkCalls # <<>>
    /\ sdkCalls[1].cap = "createListing"
    /\ sdkCalls[1].amount = collections[cur].defaultPrice

\* an undercut of a competing price that is a multiple of 1000 wei, unclamped
C34_WitnessUnclamped ==
    /\ UndercutBranch
    /\ (bestOrder.value \div SumEndAmounts(bestOrder.offer)) % 1000 = 0
    /\ request.price < collections[cur].defaultPrice


OutbidBranch == OfferEvaluated /\ branch = "outbid"

\* the price of a competing offer per token it asks for
CompetingPerToken(o) == o.value \div SumEndAmounts(o.consideration)

\* C35: in the offer outbid branch the per-unit price finally submitted, after
\* the rounding down to the increment, is strictly higher than the competing
\* per-item price.
C35_OutbidStrictlyHigher ==
    OutbidBranch =>
        /\ request.kind \in OfferCreationKinds
        /\ RequestedPerUnit > CompetingPerToken(bestOrder)

\* the same against the per-item price monitorOffer computes for the competing
\* offer (getBestTraitOffer.ts 188-195)
C35_OutbidAboveComputedPrice ==
    OutbidBranch =>
        /\ request.kind \in OfferCreationKinds
        /\ RequestedPerUnit > CompetingPerItem(offerCollections[cur], bestOrder)


----------------------------------------------------------------------------
(* The marketplace in a closed loop: it holds a fixed set of competing      *)
(* orders and records every order the engines submit, at the submitted     *)
(* price; the queries of an evaluation are answered from what it holds.    *)

MaxMarketUnits == 5
MaxEvaluations == 3
MaxOwnOrders == 3

Reverse(s) == [k \in 1..Len(s) |-> s[Len(s) + 1 - k]]

\* the pages a query may be answered with: the orders held, the owner's
\* after the competing ones or, newest first, before them
MarketFeeds(m) ==
    {<<Page(m.competing \o m.own)>>, <<Page(Reverse(m.own) \o m.competing)>>}

MarketApi(feed) == [pages |-> feed, ordersErrorIsError |-> TRUE, ordersError |-> ""]

\* the least order number the owner's live orders leave free
FreeSlot(m) ==
    CHOOSE s \in 1..(Len(m.own) + 1) :
        /\ \A k \in 1..Len(m.own) : m.own[k].order_hash # "own" \o ToString(s)
        /\ \A r \in 1..(s - 1) : \E k \in 1..Len(m.own) : m.own[k].order_hash = "own" \o ToString(r)

\* the listing the marketplace records for a createListing of the owner
recordedListing(c, price, slot) ==
    [ListingOrder(Owner, price, <<c.tokenId, 1, "ETH">>) EXCEPT !.order_hash = "own" \o ToString(slot)]

\* the offer the marketplace records for a creation call of the owner
recordedOffer(c, finalPrice, slot) ==
    LET quantity == IF inferOfferType(c) = "single" \/ c.quantity = 0 THEN 1 ELSE c.quantity
    IN  [OfferOrder(Owner, finalPrice,
                    OfferShape(inferOfferType(c), c.tokenId, c.trait, quantity, "WETH", "total", TRUE))
            EXCEPT !.order_hash = "own" \o ToString(slot)]

\* monitorCollection.ts 31-33
bestListingOf(c, feed) ==
    IF c.shouldCompareToRest THEN getBestListing(feed, NoToken, NoOfferer)
    ELSE getSingleBestListing(MarketApi(feed), c.tokenId)

\* monitorCollection.ts 23-97: one evaluation, both queries answered with feed
evaluateListing(c, feed, t) ==
    LET bestListing == bestListingOf(c, feed)
    IN  IF bestListing.kind = "error" THEN ListingDecision("threw", 0, 0)
        ELSE LET d == monitorCollectionDecide(c, bestListing, Owner, t)
             IN  IF d.branch # "requery" THEN d
                 ELSE LET ourListing == getBestListing(feed, c.tokenId, Owner)
                      IN  IF ourListing.kind = "error" THEN ListingDecision("threw", 0, 0)
                          ELSE monitorCollectionFloor(c, ourListing, t)

\* getBestTraitOffer.ts 139-158
bestOfferOf(c, feed) ==
    IF inferOfferType(c) = "collection" THEN getBestCollectionOffer(feed, NoOfferer, NoMaxPrice)
    ELSE IF inferOfferType(c) = "trait"
    THEN getBestTraitOffer(feed, c.trait[1], c.trait[2], NoOfferer)
    ELSE IF c.shouldCompareToRest THEN getBestOffer(feed, NoToken, NoOfferer)
    ELSE getSingleBestOffer(MarketApi(feed), c.tokenId)

\* getBestTraitOffer.ts 223-236
ourOfferOf(c, feed) ==
    IF inferOfferType(c) = "collection" THEN getBestCollectionOffer(feed, Owner, NoMaxPrice)
    ELSE IF inferOfferType(c) = "trait"
    THEN getBestTraitOffer(feed, c.trait[1], c.trait[2], Owner)
    ELSE getBestOffer(feed, c.tokenId, Owner)

\* getBestTraitOffer.ts 121-331: one evaluation, both queries answered with feed
evaluateOffer(c, feed, t) ==
    LET bestOffer == bestOfferOf(c, feed)
    IN  IF bestOffer.kind = "error" THEN OfferDecision("threw", 0, 0)
        ELSE LET d == monitorOfferDecide(c, bestOffer, Owner, t)
             IN  IF d.branch # "requery" THEN d
                 ELSE LET ourOffer == ourOfferOf(c, feed)
                      IN  IF ourOffer.kind = "error" THEN OfferDecision("threw", 0, 0)
                          ELSE monitorOfferOverMax(c, ourOffer, d.expirationTime)

\* the competing listing of a market: none, or one of another account
CompetingListings ==
    {<<>>}
    \cup {<<ListingOrder("0xBb", k * ListingStep, <<tokenId, q, "ETH">>)>> :
             k \in 1..MaxListingSteps, tokenId \in {"1", "2"}, q \in 1..2}

\* the competing offer of a market in the scope of the target c: none, or one
\* of another account that pays v for one token
CompetingOffers(c) ==
    {<<>>}
    \cup {<<OfferOrder("0xBb", v,
                       OfferShape(inferOfferType(c), c.tokenId, c.trait, 1, "WETH", "total", TRUE))>> :
             v \in 1..MaxMarketUnits}

QuiesceMarket(side, i, competing) ==
    [phase |-> "quiesce", side |-> side, target |-> i, competing |-> competing,
     own |-> <<>>, evaluations |-> 0, submitted |-> <<>>, branch |-> "none"]

QuiesceInit ==
    /\ dryRun = FALSE
    /\ collections = ListingConfig
    /\ offerCollections = OfferConfig
    /\ now = StartTime
    /\ pc = "idle"
    /\ engine = "none"
    /\ cur = 0
    /\ bestOrder = Undefined
    /\ ourOrder = Undefined
    /\ branch = "none"
    /\ raised = ""
    /\ request = NoRequest
    /\ sdkCalls = <<>>
    /\ cancelQueue = <<>>
    /\ offersToCancel = <<>>
    /\ retry = NoRetry
    /\ probe = NoProbe
    /\ main = NoMain
    /\ market \in {QuiesceMarket("listing", i, s) :
                      i \in 1..Len(ListingConfig), s \in CompetingListings}
                  \cup UNION {{QuiesceMarket("offer", i, s) : s \in CompetingOffers(OfferConfig[i])} :
                                 i \in 1..Len(OfferConfig)}

\* index.ts 380-405 with monitorCollection.ts 23-97: the next evaluation of
\* the listing target; the marketplace records the listing it creates
EvaluateListing ==
    /\ market.phase = "quiesce"
    /\ market.side = "listing"
    /\ market.evaluations < MaxEvaluations
    /\ \E feed \in MarketFeeds(market) :
        LET c == collections[market.target]
            d == evaluateListing(c, feed, now)
        IN  market' = [market EXCEPT
                          !.evaluations = @ + 1,
                          !.branch = d.branch,
                          !.submitted = IF ListingSubmits(d.branch) THEN Append(@, d.price) ELSE @,
                          !.own = IF ListingSubmits(d.branch)
                                  THEN Append(@, recordedListing(c, d.price, FreeSlot(market)))
                                  ELSE @]
    /\ UNCHANGED <<config, main, engineVarsButMarket>>

\* index.ts 407-434 with getBestTraitOffer.ts 121-331: the next evaluation of
\* the offer target; the marketplace records the offer it creates
EvaluateOffer ==
    /\ market.phase = "quiesce"
    /\ market.side = "offer"
    /\ market.evaluations < MaxEvaluations
    /\ \E feed \in MarketFeeds(market) :
        LET c == offerCollections[market.target]
            d == evaluateOffer(c, feed, now)
            finalPrice == offerFinalPrice(c, d.price)
        IN  market' = [market EXCEPT
                          !.evaluations = @ + 1,
                          !.branch = d.branch,
                          !.submitted = IF OfferSubmits(d.branch) THEN Append(@, finalPrice) ELSE @,
                          !.own = IF OfferSubmits(d.branch)
                                  THEN Append(@, recordedOffer(c, finalPrice, FreeSlot(market)))
                                  ELSE @]
    /\ UNCHANGED <<config, main, engineVarsButMarket>>

QuiesceNext == EvaluateListing \/ EvaluateOffer

QuiesceSpec == QuiesceInit /\ [][QuiesceNext]_vars

\* C36: once the competing orders are fixed and the marketplace records the
\* owner's orders at the submitted price, the engine makes at most one
\* submission for a target; every later evaluation of the target is a no-op.
C36_AtMostOneSubmission ==
    market.phase = "quiesce" => Len(market.submitted) <= 1

\* the same for the listing targets only
C36_ListingsQuiesce ==
    (market.phase = "quiesce" /\ market.side = "listing") => Len(market.submitted) <= 1


----------------------------------------------------------------------------
(* The offers loop and the stale-offer loop of index.ts 407-461 on one     *)
(* offer target, dry-run off, over a marketplace that holds a fixed        *)
(* competing offer: the two loops interleave at every call of the          *)
(* marketplace, every call succeeds, and both loops are scheduled fairly.  *)

NoDecision == [branch |-> "none", price |-> 0, expirationTime |-> 0]

\* an offer of the owner the marketplace holds from before: none, or one at
\* the lowest per-unit price
EarlierOffers(c) == {<<>>, <<recordedOffer(c, offerFinalPrice(c, UnitsPerIncrement), 1)>>}

\* queries: the parity of the number of first queries each loop has sent
ConvergeMarket(i, competing, own) ==
    [phase |-> "converge", target |-> i, competing |-> competing, own |-> own,
     offersPc |-> "idle", decision |-> NoDecision,
     stalePc |-> "idle", offersToCancel |-> <<>>,
     queries |-> [offers |-> 0, stale |-> 0]]

ConvergeInit ==
    /\ dryRun = FALSE
    /\ collections = ListingConfig
    /\ offerCollections = OfferConfig
    /\ now = StartTime
    /\ pc = "idle"
    /\ engine = "none"
    /\ cur = 0
    /\ bestOrder = Undefined
    /\ ourOrder = Undefined
    /\ branch = "none"
    /\ raised = ""
    /\ request = NoRequest
    /\ sdkCalls = <<>>
    /\ cancelQueue = <<>>
    /\ offersToCancel = <<>>
    /\ retry = NoRetry
    /\ probe = NoProbe
    /\ main = NoMain
    /\ market \in UNION {{ConvergeMarket(i, s, own) :
                             s \in CompetingOffers(OfferConfig[i]),
                             own \in EarlierOffers(OfferConfig[i])} :
                            i \in 1..Len(OfferConfig)}

\* the orders of own but the one of the given hash
WithoutHash(own, hash) ==
    LET Other(o) == o.order_hash # hash
    IN  SelectSeq(own, Other)

\* getBestTraitOffer.ts 121-221: the offers loop calls monitorOffer, whose
\* first query the marketplace answers
OffersQuery ==
    /\ market.phase = "converge"
    /\ market.offersPc = "idle"
    /\ \E feed \in MarketFeeds(market) :
        LET c == offerCollections[market.target]
            bestOffer == bestOfferOf(c, feed)
            d == IF bestOffer.kind = "error" THEN OfferDecision("threw", 0, 0)
                 ELSE monitorOfferDecide(c, bestOffer, Owner, now)
        IN  market' = [market EXCEPT
                          !.queries.offers = 1 - @,
                          !.decision = d,
                          !.offersPc = IF d.branch = "requery" THEN "requery"
                                       ELSE IF OfferSubmits(d.branch) THEN "create"
                                       ELSE "idle"]
    /\ UNCHANGED <<config, main, engineVarsButMarket>>

\* getBestTraitOffer.ts 222-264: the marketplace answers the re-query
OffersRequery ==
    /\ market.phase = "converge"
    /\ market.offersPc = "requery"
    /\ \E feed \in MarketFeeds(market) :
        LET c == offerCollections[market.target]
            ourOffer == ourOfferOf(c, feed)
            d == IF ourOffer.kind = "error" THEN OfferDecision("threw", 0, 0)
                 ELSE monitorOfferOverMax(c, ourOffer, market.decision.expirationTime)
        IN  market' = [market EXCEPT
                          !.decision = d,
                          !.offersPc = IF OfferSubmits(d.branch) THEN "create" ELSE "idle"]
    /\ UNCHANGED <<config, main, engineVarsButMarket>>

\* getBestTraitOffer.ts 266-330: the marketplace records the offer created
OffersCreate ==
    /\ market.phase = "converge"
    /\ market.offersPc = "create"
    /\ Len(market.own) < MaxOwnOrders
    /\ LET c == offerCollections[market.target]
           finalPrice == offerFinalPrice(c, market.decision.price)
       IN  market' = [market EXCEPT
                         !.offersPc = "idle",
                         !.own = Append(@, recordedOffer(c, finalPrice, FreeSlot(market)))]
    /\ UNCHANGED <<config, main, engineVarsButMarket>>

\* cancelOldOffers.ts 18-59: the stale-offer loop calls cancelOldOffers, whose
\* query the marketplace answers
StaleFetch ==
    /\ market.phase = "converge"
    /\ market.stalePc = "idle"
    /\ \E feed \in MarketFeeds(market) :
        LET c == offerCollections[market.target]
            gathered == getOffersToCancelForCollection(c, feed, Owner)
            offers == IF gathered.kind = "error" THEN <<>> ELSE gathered.offers
        IN  market' = [market EXCEPT
                          !.queries.stale = 1 - @,
                          !.offersToCancel = offers,
                          !.stalePc = IF offers = <<>> THEN "idle" ELSE "cancel"]
    /\ UNCHANGED <<config, main, engineVarsButMarket>>

\* cancelOldOffers.ts 61-64 and cancelOffer.ts 15-61: the marketplace cancels
\* the next offer of the list
StaleCancel ==
    /\ market.phase = "converge"
    /\ market.stalePc = "cancel"
    /\ LET offer == Head(market.offersToCancel)
           calls == cancelOffer(offer, dryRun, TRUE).calls
       IN  market' = [market EXCEPT
                         !.own = IF calls = <<>> THEN @ ELSE WithoutHash(@, calls[1].orderHash),
                         !.offersToCancel = Tail(@),
                         !.stalePc = IF Tail(market.offersToCancel) = <<>> THEN "idle"
                                     ELSE "cancel"]
    /\ UNCHANGED <<config, main, engineVarsButMarket>>

OffersLoop == OffersQuery \/ OffersRequery \/ OffersCreate
StaleLoop == StaleFetch \/ StaleCancel

ConvergeNext == OffersLoop \/ StaleLoop

\* a creation and a cancellation that a loop has decided are carried out
ConvergeSpec ==
    /\ ConvergeInit
    /\ [][ConvergeNext]_vars
    /\ WF_vars(OffersCreate)
    /\ WF_vars(StaleCancel)

\* a loop that is scheduled fairly begins evaluations again and again
OffersLoopRuns == []<>(market.queries.offers = 0) /\ []<>(market.queries.offers = 1)
StaleLoopRuns == []<>(market.queries.stale = 0) /\ []<>(market.queries.stale = 1)

\* C37: with competing offers fixed and both loops scheduled fairly, the
\* owner eventually holds at most one live offer for the target, for good.
C37_EventuallyOneOffer ==
    (OffersLoopRuns /\ StaleLoopRuns) =>
        <>[](market.phase = "converge" => Len(market.own) <= 1)

\* the same for the trait target, whose offers the engine submits once
C37_TraitTargetConverges ==
    (OffersLoopRuns /\ StaleLoopRuns) =>
        <>[]((market.phase = "converge" /\ market.target = 3) => Len(market.own) <= 1)

----------------------------------------------------------------------------
(* A query wrapped as withRetry(() => withRateLimitRetry(op)) with the      *)
(* default options (getSingleBestListing.ts 41-56): the state of one call, *)
(* op invoked once per step.                                               *)

NestedWrapper == "withRetry(withRateLimitRetry)"

\* what op ends with: its result, a rate limit, a rate limit whose message
\* names a timeout, a timeout, a revert, an error with a numeric code
OpOutcomes ==
    { Fulfilled,
      Rejection(TRUE, Str(<<"failed">>), Missing, Num(2)),
      Rejection(TRUE, Str(<<"request", "timeout">>), Missing, Num(60)),
      Rejection(TRUE, Str(<<"failed">>), Str(<<"ETIMEDOUT">>), Missing),
      Rejection(TRUE, Str(<<"execution", "reverted">>), Missing, Missing),
      Rejection(TRUE, Str(<<"failed">>), Num(429), Missing) }

\* ratelimit.ts 41-61, 3-15: the outer wrapper is called and calls the inner
\* one; both set their attempt counters
NestedCall ==
    /\ retry.status # "running"
    /\ retry' = [wrapper |-> NestedWrapper,
                 attempt |-> attemptAtStart(IF retry.wrapper = NestedWrapper THEN retry.attempt ELSE 0),
                 inner |-> attemptAtStart(IF retry.wrapper = NestedWrapper THEN retry.inner ELSE 0),
                 innerStart |-> attemptAtStart(IF retry.wrapper = NestedWrapper THEN retry.inner ELSE 0),
                 invocations |-> 0, rateLimitRetries |-> 0, genericRetries |-> 0,
                 status |-> "running", last |-> Fulfilled, settled |-> Fulfilled]
    /\ UNCHANGED <<config, main, market, probe, now, pc, engine, cur, bestOrder, ourOrder, branch,
                   raised, request, sdkCalls, cancelQueue, offersToCancel>>

\* ratelimit.ts 16-32 inside 62-86: op is invoked; the inner catch retries a
\* rate limit, what it rethrows reaches the outer catch, whose retry calls
\* withRateLimitRetry anew
NestedInvoke ==
    /\ retry.wrapper = NestedWrapper
    /\ retry.status = "running"
    /\ \E r \in OpOutcomes :
        LET invoked == [retry EXCEPT !.invocations = @ + 1, !.last = r]
            caughtInside ==
                withRateLimitRetryCatch(r, retry.inner, DEFAULT_MAX_RETRIES,
                                        DEFAULT_BASE_DELAY_MS, DEFAULT_MAX_DELAY_MS)
            caughtOutside ==
                withRetryCatch(caughtInside.error, retry.attempt, DEFAULT_MAX_RETRIES,
                               DEFAULT_BASE_DELAY_MS, DEFAULT_MAX_DELAY_MS,
                               DEFAULT_RETRYABLE_ERRORS)
        IN  retry' =
                IF r.kind = "value"
                THEN [invoked EXCEPT !.status = "resolved", !.settled = r]
                ELSE IF caughtInside.then = "retry"
                THEN [invoked EXCEPT !.inner = @ + 1, !.rateLimitRetries = @ + 1]
                ELSE IF caughtOutside.then = "retry"
                THEN [invoked EXCEPT !.attempt = @ + 1, !.genericRetries = @ + 1,
                                     !.inner = attemptAtStart(@),
                                     !.innerStart = attemptAtStart(retry.inner),
                                     !.rateLimitRetries = 0]
                ELSE [invoked EXCEPT !.status = "rejected", !.settled = caughtOutside.error]
    /\ UNCHANGED <<config, main, market, probe, now, pc, engine, cur, bestOrder, ourOrder, branch,
                   raised, request, sdkCalls, cancelQueue, offersToCancel>>

NestedRetryNext == NestedCall \/ NestedInvoke

NestedRetrySpec == Init /\ [][NestedRetryNext]_vars

NestedCalled == retry.wrapper = NestedWrapper

\* C38: a call of withRetry(withRateLimitRetry(op)) with default options
\* invokes op at most (5 + 1) * (5 + 1) = 36 times and then returns op's
\* result or rejects; the inner counter restarts from 0 on every outer retry,
\* so that rate-limit retries and generic-error retries are counted apart.
C38_AtMostThirtySixInvocations ==
    NestedCalled =>
        /\ retry.invocations <= (DEFAULT_MAX_RETRIES + 1) * (DEFAULT_MAX_RETRIES + 1)
        /\ retry.status \in {"running", "resolved", "rejected"}
        /\ retry.status = "resolved" => (retry.last.kind = "value" /\ retry.settled = retry.last)
        /\ retry.status = "rejected" => retry.last.kind = "error"
        /\ retry.innerStart = 0
        /\ retry.inner = retry.rateLimitRetries
        /\ retry.attempt = retry.genericRetries
        /\ retry.inner <= DEFAULT_MAX_RETRIES
        /\ retry.attempt <= DEFAULT_MAX_RETRIES

\* the call that takes 36 invocations: each of the six calls of the inner
\* wrapper is rate-limited five times and then times out
C38_Witness ==
    /\ NestedCalled
    /\ retry.invocations = 36
    /\ retry.status = "rejected"
    /\ retry.attempt = DEFAULT_MAX_RETRIES
    /\ retry.inner = DEFAULT_MAX_RETRIES


----------------------------------------------------------------------------
(* The three polling loops for ever (index.ts 380-461): each evaluation is *)
(* a finite run of marketplace calls.  A call returns or fails; a paginated *)
(* query asks for the pages of a finite feed one after the other, each     *)
(* page behind withRateLimitRetry; the statements of the loop body outside *)
(* the per-target try (the logger, the timer of sleep) return.             *)

MaxPages == 2
MaxPollTargets == 2

\* a feed whose cursor leads back to the page just read
samePage(pagesLeft) == pagesLeft
\* getBestListing.ts 50-57: the query goes on with the page listingsResp.next
\* names, one page less being left of a finite feed
nextPage(pagesLeft) == pagesLeft - 1

Polling(at, pos, pagesLeft, attempt) ==
    [at |-> at, pos |-> pos, pagesLeft |-> pagesLeft, attempt |-> attempt]

PollInit ==
    /\ dryRun = FALSE
    /\ collections = SubSeq(ListingConfig, 1, MaxPollTargets)
    /\ \E n \in 1..MaxPollTargets : offerCollections = SubSeq(OfferConfig, 1, n)
    /\ now = StartTime
    /\ pc = "idle"
    /\ engine = "none"
    /\ cur = 0
    /\ bestOrder = Undefined
    /\ ourOrder = Undefined
    /\ branch = "none"
    /\ raised = ""
    /\ request = NoRequest
    /\ sdkCalls = <<>>
    /\ cancelQueue = <<>>
    /\ offersToCancel = <<>>
    /\ retry = NoRetry
    /\ probe = NoProbe
    /\ main = [phase |-> "polling", loops |-> [l \in Loops |-> Polling("for", 1, 0, 0)],
               caught |-> FALSE]
    /\ market = NoMarket

\* the for goes on with the next target, after an evaluation that ended as
\* outcome says; what it raised was caught and logged
PollAfter(l, outcome) ==
    [main EXCEPT !.loops[l] = Polling("for", @.pos + 1, 0, 0),
                 !.caught = @ \/ outcome = "raised"]

\* index.ts 388-390, 415-417, 444-446: the evaluation of the next target
\* begins with a paginated query of a finite feed
PollBegin(l) ==
    /\ main.phase = "polling"
    /\ main.loops[l].at = "for"
    /\ main.loops[l].pos <= Len(targetsOf(l))
    /\ \E pages \in 1..MaxPages :
        main' = [main EXCEPT !.loops[l] = Polling("query", @.pos, pages, attemptAtStart(@.attempt))]
    /\ UNCHANGED <<config, engineVars>>

\* getBestListing.ts 23-25, 48-67 with ratelimit.ts 15-32: the call for a
\* page returns, fails, or is rate-limited and tried again while retries are
\* left
PollPage(l) ==
    /\ main.phase = "polling"
    /\ main.loops[l].at = "query"
    /\ \E answer \in {"returned", "failed", "rate limited"} :
        LET lp == main.loops[l]
            caught == withRateLimitRetryCatch(RateLimited, lp.attempt, DEFAULT_MAX_RETRIES,
                                              DEFAULT_BASE_DELAY_MS, DEFAULT_MAX_DELAY_MS)
        IN  main' =
                IF answer = "returned"
                THEN [main EXCEPT !.loops[l] =
                         IF nextPage(lp.pagesLeft) = 0 THEN Polling("decide", lp.pos, 0, 0)
                         ELSE Polling("query", lp.pos, nextPage(lp.pagesLeft),
                                      attemptAtStart(lp.attempt))]
                ELSE IF answer = "rate limited" /\ caught.then = "retry"
                THEN [main EXCEPT !.loops[l].attempt = @ + 1]
                ELSE PollAfter(l, "raised")
    /\ UNCHANGED <<config, engineVars>>

\* monitorCollection.ts 35-97, getBestTraitOffer.ts 160-330, cancelOldOffers.ts
\* 47-64: the decision, and the creation or the cancellations it calls for
PollDecide(l) ==
    /\ main.phase = "polling"
    /\ main.loops[l].at = "decide"
    /\ \E outcome \in {"submitted", "skipped", "raised"} : main' = PollAfter(l, outcome)
    /\ UNCHANGED <<config, engineVars>>

\* index.ts 402-403, 431-432, 458-459: all targets done, the loop sleeps
PollSleep(l) ==
    /\ main.phase = "polling"
    /\ main.loops[l].at = "for"
    /\ main.loops[l].pos > Len(targetsOf(l))
    /\ main' = [main EXCEPT !.loops[l].at = "sleeping"]
    /\ UNCHANGED <<config, engineVars>>

\* index.ts 387, 414, 443: the timer ends and `while (true)` starts the next
\* cycle
PollWake(l) ==
    /\ main.phase = "polling"
    /\ main.loops[l].at = "sleeping"
    /\ main' = [main EXCEPT !.loops[l] = Polling("for", 1, 0, 0)]
    /\ UNCHANGED <<config, engineVars>>

PollLoop(l) == PollBegin(l) \/ PollPage(l) \/ PollDecide(l) \/ PollSleep(l) \/ PollWake(l)

PollNext == \E l \in Loops : PollLoop(l)

\* the three loops are tasks of one event loop: a continuation that is ready
\* is run, and every call awaited settles
PollSpec ==
    /\ PollInit
    /\ [][PollNext]_vars
    /\ WF_vars(PollLoop("monitorListings"))
    /\ WF_vars(PollLoop("monitorOffers"))
    /\ WF_vars(PollLoop("cancelStaleOffers"))

\* the evaluation of target i of loop l has just begun
Evaluating(l, i) ==
    /\ main.phase = "polling"
    /\ main.loops[l].at = "query"
    /\ main.loops[l].pos = i

\* C39: every evaluation ends (by submitting, skipping or raising), and every
\* target of each of the three loops is evaluated infinitely often.
C39_EvaluatedInfinitelyOften ==
    \A l \in Loops : \A i \in 1..MaxPollTargets :
        []<>(i > Len(targetsOf(l)) \/ Evaluating(l, i))

\* an evaluation goes on after an evaluation has raised: the second page of
\* its query is asked for a sixth time
C39_Witness ==
    /\ main.phase = "polling"
    /\ main.caught
    /\ Evaluating("cancelStaleOffers", 2)
    /\ main.loops["cancelStaleOffers"].pagesLeft = 1
    /\ main.loops["cancelStaleOffers"].attempt = DEFAULT_MAX_RETRIES


----------------------------------------------------------------------------
(* The 3-decimal fallback of an offer for more than one item               *)
(* (offers/utils.ts 126-147 called from createOfferBase 233-254 with the   *)
(* total getBestTraitOffer.ts 272-285 computed)                            *)

\* the evaluation sent a collection or trait offer, was told that 3 decimals
\* are allowed, and sent it again
FallbackFired ==
    /\ engine = "offer"
    /\ pc = "done"
    /\ Len(sdkCalls) = 2
    /\ sdkCalls[1].cap = "createCollectionOffer"
    /\ sdkCalls[2].cap = "createCollectionOffer"
    /\ sdkCalls[2].sentAt = sdkCalls[1].sentAt

\* the total of a creation call over its quantity
PerUnit(call) == call.amount \div call.quantity

\* C40: when the 3-decimal fallback fires for a collection or trait offer of
\* quantity q >= 1, the resubmitted total divided by q is a multiple of 0.001
\* native unit and is not lower than the per-unit price of the first attempt.
C40_ResubmittedPerUnit ==
    FallbackFired =>
        /\ PerUnit(sdkCalls[2]) % OPENSEA_PRICE_INCREMENT_3_DECIMALS = 0
        /\ PerUnit(sdkCalls[2]) >= PerUnit(sdkCalls[1])

\* what the fallback does keep: the resubmitted total is the first total
\* rounded up to 0.001, so no per-unit price goes down
C40_ResubmittedTotal ==
    FallbackFired =>
        /\ sdkCalls[2].amount = roundUpToThreeDecimals(sdkCalls[1].amount)
        /\ sdkCalls[2].amount % OPENSEA_PRICE_INCREMENT_3_DECIMALS = 0
        /\ sdkCalls[2].quantity = sdkCalls[1].quantity
        /\ PerUnit(sdkCalls[2]) >= PerUnit(sdkCalls[1])

\* the fallback for an offer of two items: the total of 0.0002 goes up to
\* 0.001, which is 0.0005 an item
C40_FallbackOfTwo ==
    /\ FallbackFired
    /\ sdkCalls[1].quantity = 2
    /\ sdkCalls[1].amount = 2 * OPENSEA_PRICE_INCREMENT_4_DECIMALS
    /\ sdkCalls[2].amount = OPENSEA_PRICE_INCREMENT_3_DECIMALS

====
